---- MODULE Spec2Model ----
(***************************************************************************)
(* Model of the poptranscribe recording core (src-tauri):                  *)
(*   - commands.rs   start_session / stop_session and the background       *)
(*                   forwarding task start_session spawns,                 *)
(*   - app_state.rs  the active-session slot,                              *)
(*   - capture.rs    the capture engine's flag, stream and output channel, *)
(*   - realtime.rs   connect_realtime, its sender and receiver tasks.      *)
(*                                                                         *)
(* Spec   : the session orchestrator (commands run on a multi-threaded     *)
(*          runtime, so two command invocations interleave at each lock).  *)
(* SpecRT : one connect_realtime call against an arbitrary server.         *)
(***************************************************************************)
EXTENDS Integers, Sequences, FiniteSets, TLC

\* ---------------------------------------------------------------- bounds
MaxSessions == 2
MaxCallbacks == 2
MaxCalls == 3
MaxInbound == 4
MaxHandleCalls == 3
MaxCapOps == 3
MaxCapCallbacks == 3
MaxDataLen == 4
MaxResampleLen == 3
MaxMixLen == 2
MaxStoreEvents == 3
MaxBatchSegs == 2
MaxRanges == 3
MaxDevices == 2

SessionIds == 1..MaxSessions
Callers == {"a", "b"}
ChunkLens == {0, 2}
NoSession == 0

VARIABLES
    \* ---- app_state.rs
    active,         \* AppState.active_session: NoSession or an ActiveSession record
    mutex,          \* holder of the active_session mutex ("free" or a caller)
    dbRows,         \* session rows created by db.create_session
    \* ---- one command invocation per caller
    pc,             \* position of the caller's command
    loc,            \* the command's locals (session id, samples read out)
    ret,            \* the command's result
    ncalls,         \* number of commands invoked so far
    invoker,        \* the caller of the latest invocation
    \* ---- capture.rs, one AudioCapturer per started session
    cap,            \* [capturing, stream]: the atomic flag and whether a stream is held
    chan,           \* the std::sync::mpsc channel of chunks
    ncb,            \* number of hardware callbacks that have run
    \* ---- the background task of start_session
    task,           \* position of the task
    cur,            \* the chunk try_recv returned
    buf,            \* audio_samples
    stopSig,        \* value of the watch channel stop_tx/stop_rx
    sent,           \* chunks passed to rt_handle.send_audio
    ended,          \* number of rt_handle.end_audio calls
    failedAt,       \* -1, or Len(buf) when the realtime session failed mid-session
    \* ---- history, read by the properties only
    emitted,        \* non-empty chunks put on the channel, in channel order
    \* ---- realtime.rs, one connect_realtime call and the tasks it spawns
    srcRate,        \* source_sample_rate
    rtpc,           \* position of connect_realtime
    rtres,          \* its result
    wsIn,           \* the transport's read half: "open", "closing", "ended"
    nread,          \* number of ws_read.next() calls that have returned
    lastIn,         \* what the latest ws_read.next() returned
    handle,         \* the RealtimeHandle: "none", "live", "dropped"
    audioq,         \* the unbounded channel of AudioMsg
    sender,         \* the sender task: "none", "run", "done"
    receiver,       \* the receiver task: "none", "run", "done"
    events,         \* TranscriptionEvents sent on the event channel
    nhcalls,        \* number of send_audio / end_audio calls made
    relay,          \* the caller's event relay task: "none", "run", "done"
    nrelayed,       \* number of events the relay has received
    \* ---- history, read by the properties only
    wire,           \* acknowledgments read and messages written, in order
    sendLog,        \* chunks passed to send_audio, in call order
    endMark,        \* -1, or the number of send_audio calls before the first end_audio
    inEvents,       \* event-bearing items the receiver task read, in order
    \* ---- capture.rs, one AudioCapturer driven through its public methods
    acPc,           \* the control thread: "none", "idle", "start_mic", "stop_teardown"
    acMode,         \* CaptureMode: "InPerson" or "Visio"
    acDev,          \* the devices: [platform, rate, channels, sys_rate, sys_channels]
    acCapturing,    \* the capturing flag
    acStream,       \* self.stream is Some
    acSysStream,    \* self.sc_stream / self.loopback_stream is Some
    acRate,         \* actual_sample_rate
    acSrcRate,      \* the caller's copy of actual_sample_rate, read after start
    acCb,           \* per source, the callback in flight (after its flag test) or none
    acChan,         \* chunks on the output channel
    acNcb,          \* number of hardware callbacks that have run
    acOps,          \* number of start / stop calls made
    acLog,          \* the results of the start / stop calls that returned, in order
    \* ---- history, read by the properties only
    acStopped,      \* stop has returned at least once
    acFrames,       \* frames the sender task makes of the forwarded chunks
    \* ---- one call of a pure function
    fnName,         \* the function called, "none" before the call
    fnArgs,         \* its arguments
    fnOut,          \* its result
    fnPanicked,     \* the call panicked instead of returning
    \* ---- the segments table of one recording, its relay and its batch task
    stSegs,         \* the rows of the segments table, in insertion order
    stEvq,          \* events on the event channel the relay has not received
    stRx,           \* realtime.rs's receiver task: "run" or "done"
    stRelay,        \* the event relay task: "run" or "done"
    stBatch,        \* the batch task: "none", "transcribing", "stored", "failed"
    stNev           \* number of events the receiver task has sent

svars == <<active, mutex, dbRows, pc, loc, ret, ncalls, invoker, cap, chan, ncb, task, cur, buf,
           stopSig, sent, ended, failedAt, emitted>>

rtvars == <<srcRate, rtpc, rtres, wsIn, nread, lastIn, handle, audioq, sender,
            receiver, events, nhcalls, relay, nrelayed, wire, sendLog, endMark,
            inEvents>>

capvars == <<acPc, acMode, acDev, acCapturing, acStream, acSysStream, acRate,
             acSrcRate, acCb, acChan, acNcb, acOps, acLog, acStopped, acFrames>>

fnvars == <<fnName, fnArgs, fnOut, fnPanicked>>

storevars == <<stSegs, stEvq, stRx, stRelay, stBatch, stNev>>

\* What the actions of one component leave alone.
nonSession == <<rtvars, capvars, fnvars, storevars>>
nonRT == <<svars, capvars, fnvars, storevars>>
nonCap == <<svars, rtvars, fnvars, storevars>>
nonFn == <<svars, rtvars, capvars, storevars>>
nonStore == <<svars, rtvars, capvars, fnvars>>

\* ------------------------------------------------------------- helpers
RECURSIVE Flatten(_)
Flatten(chunks) ==
    IF chunks = <<>> THEN <<>> ELSE Head(chunks) \o Flatten(Tail(chunks))

IsPrefix(s, t) == Len(s) <= Len(t) /\ SubSeq(t, 1, Len(s)) = s

\* The k-th callback's chunk: len samples, each distinct from every other sample.
Chunk(k, len) == [i \in 1..len |-> 10 * k + i]

NoRet == [kind |-> "none", id |-> NoSession]
Ret(k, s) == [kind |-> k, id |-> s]
NoLoc == [cmd |-> "none", sid |-> NoSession, samples |-> <<>>, seen |-> 0]
StartLoc == [NoLoc EXCEPT !.cmd = "start"]

\* The ActiveSession stored for session s: every field is created by the
\* start_session invocation that created s.
ActiveSession(s) ==
    [id |-> s, capturer |-> s, audio_samples |-> s, stop_signal |-> s]

\* Option<ActiveSession>: None is the record of no session.
None == ActiveSession(NoSession)
IsSome(slot) == slot # None

InitSession ==
    /\ active = None
    /\ mutex = "free"
    /\ dbRows = {}
    /\ pc = [c \in Callers |-> "idle"]
    /\ loc = [c \in Callers |-> NoLoc]
    /\ ret = [c \in Callers |-> NoRet]
    /\ ncalls = 0
    /\ invoker = "a"
    /\ cap = [s \in SessionIds |-> [capturing |-> FALSE, stream |-> FALSE]]
    /\ chan = [s \in SessionIds |-> <<>>]
    /\ ncb = 0
    /\ task = [s \in SessionIds |-> "none"]
    /\ cur = [s \in SessionIds |-> <<>>]
    /\ buf = [s \in SessionIds |-> <<>>]
    /\ stopSig = [s \in SessionIds |-> FALSE]
    /\ sent = [s \in SessionIds |-> <<>>]
    /\ ended = [s \in SessionIds |-> 0]
    /\ failedAt = [s \in SessionIds |-> -1]
    /\ emitted = [s \in SessionIds |-> <<>>]

\* ------------------------------------------------ capture.rs (AudioCapturer)
\* AudioCapturer::start succeeded: play(), then capturing.store(true), then the
\* stream is kept in self.stream.
CapturerStarted == [capturing |-> TRUE, stream |-> TRUE]

\* AudioCapturer::stop: capturing.store(false), then the stream is taken out of
\* the Option, paused and dropped.
CapturerStop(cp) == [capturing |-> FALSE, stream |-> FALSE]

\* Dropping an AudioCapturer without stop(): the stream is dropped with the
\* struct, the flag is not written.
CapturerDrop(cp) == [cp EXCEPT !.stream = FALSE]

\* The realtime session of s has failed after its handshake.
RtFailed(s) == failedAt[s] >= 0

\* The receiving end of the channel lives in the background task's future.
RxAlive(s) == task[s] \in {"connecting", "check", "recv", "append", "send", "end"}

\* One hardware callback of session s's stream delivering len samples.
HwCallback(s, len) ==
    /\ cap[s].stream
    /\ ncb < MaxCallbacks
    /\ ncb' = ncb + 1
    /\ LET chunk == Chunk(ncb + 1, len)
           put == cap[s].capturing /\ RxAlive(s)
       IN /\ chan' = IF put THEN [chan EXCEPT ![s] = Append(@, chunk)] ELSE chan
          /\ emitted' = IF put /\ chunk # <<>>
                        THEN [emitted EXCEPT ![s] = Append(@, chunk)]
                        ELSE emitted
    /\ UNCHANGED <<ncalls, invoker, active, mutex, dbRows, pc, loc, ret, cap, task, cur, buf,
                   stopSig, sent, ended, failedAt>>
    /\ UNCHANGED nonSession

\* ------------------------------------------------ commands.rs start_session
\* A start_session that never tests the slot (sensitivity variant of
\* SlotOccupied).
SlotOccupied_Never(slot) == FALSE

\* Line 29: if active.is_some() { return Err(..) }.
SlotOccupied(slot) == IsSome(slot)

\* Lines 21-183, one invocation of start_session up to the spawn. Lines 26-33:
\* lock, test is_some, unlock. Lines 34-54: create the session row, read the API
\* key and the device name. Lines 56-183: build and start the capturer, create
\* the buffer and the stop channel, spawn the background task. Only lines
\* 26-33 touch the slot; what follows is local to the invocation.
StartBegin(c) ==
    /\ pc[c] = "idle"
    /\ ncalls < MaxCalls
    /\ mutex = "free"
    /\ ncalls' = ncalls + 1
    /\ invoker' = c
    /\ IF SlotOccupied(active)
       THEN /\ pc' = pc
            /\ loc' = [loc EXCEPT ![c] = StartLoc]
            /\ ret' = [ret EXCEPT ![c] = Ret("ErrActive", NoSession)]
            /\ UNCHANGED <<dbRows, cap, task>>
       ELSE /\ Cardinality(dbRows) < MaxSessions
            /\ \E outcome \in {"ok", "db_err", "no_key", "device_err"} :
                 LET sid == Cardinality(dbRows) + 1 IN
                 IF outcome = "db_err"
                 THEN /\ pc' = pc
                      /\ loc' = [loc EXCEPT ![c] = StartLoc]
                      /\ ret' = [ret EXCEPT ![c] = Ret("ErrDb", NoSession)]
                      /\ UNCHANGED <<dbRows, cap, task>>
                 ELSE /\ dbRows' = dbRows \cup {sid}
                      /\ IF outcome = "ok"
                         THEN /\ cap' = [cap EXCEPT ![sid] = CapturerStarted]
                              /\ task' = [task EXCEPT ![sid] = "connecting"]
                              /\ pc' = [pc EXCEPT ![c] = "start_store"]
                              /\ loc' = [loc EXCEPT ![c] = [StartLoc EXCEPT !.sid = sid]]
                              /\ ret' = [ret EXCEPT ![c] = NoRet]
                         ELSE /\ pc' = pc
                              /\ loc' = [loc EXCEPT ![c] = StartLoc]
                              /\ ret' = [ret EXCEPT ![c] =
                                           Ret(IF outcome = "no_key" THEN "ErrKey"
                                               ELSE "ErrDevice", NoSession)]
                              /\ UNCHANGED <<cap, task>>
    /\ UNCHANGED <<active, mutex, chan, ncb, cur, buf,
                   stopSig, sent, ended, failedAt, emitted>>
    /\ UNCHANGED nonSession

\* Lines 185-195: lock, overwrite the slot (the previous value, if any, is
\* dropped), return the id.
StartStore(c) ==
    /\ pc[c] = "start_store"
    /\ mutex = "free"
    /\ LET s == loc[c].sid IN
       /\ active' = ActiveSession(s)
       /\ cap' = IF IsSome(active)
                 THEN [cap EXCEPT ![active.capturer] = CapturerDrop(@)]
                 ELSE cap
       /\ pc' = [pc EXCEPT ![c] = "idle"]
       /\ ret' = [ret EXCEPT ![c] = Ret("Ok", s)]
    /\ UNCHANGED <<ncalls, invoker, mutex, dbRows, loc, chan, ncb, task, cur, buf,
                   stopSig, sent, ended, failedAt, emitted>>
    /\ UNCHANGED nonSession

\* ------------------------------------------------- commands.rs stop_session
\* A stop_session that reads the slot without emptying it (sensitivity variant
\* of Take).
Take_Peek(slot) == slot

\* A stop_session that forgets to put a mismatched session back (sensitivity
\* variant of PutBack).
PutBack_Forgotten(session) == None

\* Line 207: active.take() leaves None in the slot.
Take(slot) == None

\* Lines 209-211: the session taken out is put back, *active = Some(session).
PutBack(session) == session

\* Lines 199-221, one invocation of stop_session(id): lock, take the slot;
\* None -> error; other id -> put it back, error; else raise the stop signal
\* and stop the capturer (the mutex stays held).
StopTake(c, id) ==
    /\ pc[c] = "idle"
    /\ ncalls < MaxCalls
    /\ mutex = "free"
    /\ ncalls' = ncalls + 1
    /\ invoker' = c
    /\ loc' = [loc EXCEPT ![c] = [cmd |-> "stop", sid |-> id, samples |-> <<>>,
                                  seen |-> Len(emitted[id])]]
    /\ IF ~IsSome(active)
       THEN /\ ret' = [ret EXCEPT ![c] = Ret("ErrNoActive", NoSession)]
            /\ UNCHANGED <<pc, active, mutex, stopSig, cap>>
       ELSE IF active.id # id
       THEN /\ ret' = [ret EXCEPT ![c] = Ret("ErrMismatch", active.id)]
            /\ active' = PutBack(active)
            /\ UNCHANGED <<pc, mutex, stopSig, cap>>
       ELSE /\ active' = Take(active)
            /\ mutex' = c
            /\ stopSig' = [stopSig EXCEPT ![active.stop_signal] = TRUE]
            /\ cap' = [cap EXCEPT ![active.capturer] = CapturerStop(@)]
            /\ pc' = [pc EXCEPT ![c] = "stop_read"]
            /\ ret' = [ret EXCEPT ![c] = NoRet]
    /\ UNCHANGED <<dbRows, chan, ncb, task, cur, buf,
                   sent, ended, failedAt, emitted>>
    /\ UNCHANGED nonSession

\* A stop_session whose guard outlives the block (sensitivity variant of
\* StopRead).
StopRead_KeepsLock(c) ==
    /\ pc[c] = "stop_read"
    /\ loc' = [loc EXCEPT ![c].samples = buf[loc[c].sid]]
    /\ mutex' = mutex
    /\ pc' = [pc EXCEPT ![c] = "stop_save"]
    /\ UNCHANGED <<ncalls, invoker, active, dbRows, ret, cap, chan, ncb, task, cur, buf,
                   stopSig, sent, ended, failedAt, emitted>>
    /\ UNCHANGED nonSession

\* Lines 223-235: clone the accumulated samples under the buffer's lock, leave
\* the block (the active_session mutex is released).
StopRead(c) ==
    /\ pc[c] = "stop_read"
    /\ loc' = [loc EXCEPT ![c].samples = buf[loc[c].sid]]
    /\ mutex' = "free"
    /\ pc' = [pc EXCEPT ![c] = "stop_save"]
    /\ UNCHANGED <<ncalls, invoker, active, dbRows, ret, cap, chan, ncb, task, cur, buf,
                   stopSig, sent, ended, failedAt, emitted>>
    /\ UNCHANGED nonSession

\* A stop_session that puts the recording back when saving fails
\* (sensitivity variant of StopSave).
StopSave_PutsBackOnError(c) ==
    /\ pc[c] = "stop_save"
    /\ \E outcome \in {"Stopped", "ErrSave", "ErrUpdate"} :
         /\ ret' = [ret EXCEPT ![c] = Ret(outcome, loc[c].sid)]
         /\ active' = IF outcome = "Stopped" \/ IsSome(active)
                      THEN active ELSE ActiveSession(loc[c].sid)
    /\ pc' = [pc EXCEPT ![c] = "idle"]
    /\ UNCHANGED <<ncalls, invoker, mutex, dbRows, loc, cap, chan, ncb, task, cur, buf,
                   stopSig, sent, ended, failedAt, emitted>>
    /\ UNCHANGED nonSession

\* Lines 237-359: save the WAV file, update the session row, spawn the batch
\* task.
StopSave(c) ==
    /\ pc[c] = "stop_save"
    /\ \E outcome \in {"Stopped", "ErrSave", "ErrUpdate"} :
         ret' = [ret EXCEPT ![c] = Ret(outcome, loc[c].sid)]
    /\ pc' = [pc EXCEPT ![c] = "idle"]
    /\ UNCHANGED <<ncalls, invoker, active, mutex, dbRows, loc, cap, chan, ncb, task, cur, buf,
                   stopSig, sent, ended, failedAt, emitted>>
    /\ UNCHANGED nonSession

\* ------------------------- commands.rs, the task spawned by start_session
\* Lines 81-87 and 98: connect_realtime returned Ok.
TaskConnectOk(s) ==
    /\ task[s] = "connecting"
    /\ task' = [task EXCEPT ![s] = "check"]
    /\ UNCHANGED <<ncalls, invoker, active, mutex, dbRows, pc, loc, ret, cap, chan, ncb, cur, buf,
                   stopSig, sent, ended, failedAt, emitted>>
    /\ UNCHANGED nonSession

\* Lines 88-95: connect_realtime returned Err: emit session-error and return
\* (the channel's receiver is dropped with the task).
TaskConnectErr(s) ==
    /\ task[s] = "connecting"
    /\ task' = [task EXCEPT ![s] = "failed"]
    /\ chan' = [chan EXCEPT ![s] = <<>>]
    /\ UNCHANGED <<ncalls, invoker, active, mutex, dbRows, pc, loc, ret, cap, ncb, cur, buf,
                   stopSig, sent, ended, failedAt, emitted>>
    /\ UNCHANGED nonSession

\* Lines 149-151: if *stop_rx.borrow() { break }.
TaskCheckStop(s) ==
    /\ task[s] = "check"
    /\ task' = [task EXCEPT ![s] = IF stopSig[s] THEN "end" ELSE "recv"]
    /\ UNCHANGED <<ncalls, invoker, active, mutex, dbRows, pc, loc, ret, cap, chan, ncb, cur, buf,
                   stopSig, sent, ended, failedAt, emitted>>
    /\ UNCHANGED nonSession

\* Lines 153-155 and 174-178: receiver.try_recv().
TaskRecv(s) ==
    /\ task[s] = "recv"
    /\ IF chan[s] # <<>>
       THEN /\ chan' = [chan EXCEPT ![s] = Tail(@)]
            /\ IF Head(chan[s]) # <<>>
               THEN /\ cur' = [cur EXCEPT ![s] = Head(chan[s])]
                    /\ task' = [task EXCEPT ![s] = "append"]
               ELSE /\ cur' = cur
                    /\ task' = [task EXCEPT ![s] = "check"]
       ELSE /\ task' = [task EXCEPT ![s] = IF cap[s].stream THEN "check" ELSE "end"]
            /\ UNCHANGED <<chan, cur>>
    /\ UNCHANGED <<ncalls, invoker, active, mutex, dbRows, pc, loc, ret, cap, ncb, buf,
                   stopSig, sent, ended, failedAt, emitted>>
    /\ UNCHANGED nonSession

\* A forwarding loop that keeps only the latest chunk (sensitivity variant of
\* TaskAppend).
TaskAppend_Overwrite(s) ==
    /\ task[s] = "append"
    /\ buf' = [buf EXCEPT ![s] = cur[s]]
    /\ task' = [task EXCEPT ![s] = "send"]
    /\ UNCHANGED <<ncalls, invoker, active, mutex, dbRows, pc, loc, ret, cap, chan, ncb, cur,
                   stopSig, sent, ended, failedAt, emitted>>
    /\ UNCHANGED nonSession

\* A forwarding loop that forwards a chunk without accumulating it
\* (sensitivity variant of TaskAppend).
TaskAppend_Skip(s) ==
    /\ task[s] = "append"
    /\ buf' = buf
    /\ task' = [task EXCEPT ![s] = "send"]
    /\ UNCHANGED <<ncalls, invoker, active, mutex, dbRows, pc, loc, ret, cap, chan, ncb, cur,
                   stopSig, sent, ended, failedAt, emitted>>
    /\ UNCHANGED nonSession

\* Lines 165-168: samples.extend_from_slice(&chunk) under the buffer's lock.
TaskAppend(s) ==
    /\ task[s] = "append"
    /\ buf' = [buf EXCEPT ![s] = @ \o cur[s]]
    /\ task' = [task EXCEPT ![s] = "send"]
    /\ UNCHANGED <<ncalls, invoker, active, mutex, dbRows, pc, loc, ret, cap, chan, ncb, cur,
                   stopSig, sent, ended, failedAt, emitted>>
    /\ UNCHANGED nonSession

\* A forwarding loop that leaves on a failed realtime session (sensitivity
\* variant of TaskSend).
TaskSend_BreakOnFailure(s) ==
    /\ task[s] = "send"
    /\ sent' = [sent EXCEPT ![s] = Append(@, cur[s])]
    /\ cur' = [cur EXCEPT ![s] = <<>>]
    /\ task' = [task EXCEPT ![s] = IF RtFailed(s) THEN "end" ELSE "check"]
    /\ UNCHANGED <<ncalls, invoker, active, mutex, dbRows, pc, loc, ret, cap, chan, ncb, buf,
                   stopSig, ended, failedAt, emitted>>
    /\ UNCHANGED nonSession

\* Lines 170-171: rt_handle.send_audio(chunk); its result is ignored.
TaskSend(s) ==
    /\ task[s] = "send"
    /\ sent' = [sent EXCEPT ![s] = Append(@, cur[s])]
    /\ cur' = [cur EXCEPT ![s] = <<>>]
    /\ task' = [task EXCEPT ![s] = "check"]
    /\ UNCHANGED <<ncalls, invoker, active, mutex, dbRows, pc, loc, ret, cap, chan, ncb, buf,
                   stopSig, ended, failedAt, emitted>>
    /\ UNCHANGED nonSession

\* Lines 181-183: rt_handle.end_audio(), the task returns.
TaskEnd(s) ==
    /\ task[s] = "end"
    /\ ended' = [ended EXCEPT ![s] = @ + 1]
    /\ task' = [task EXCEPT ![s] = "done"]
    /\ chan' = [chan EXCEPT ![s] = <<>>]
    /\ UNCHANGED <<ncalls, invoker, active, mutex, dbRows, pc, loc, ret, cap, ncb, cur, buf,
                   stopSig, sent, failedAt, emitted>>
    /\ UNCHANGED nonSession

\* A mid-session transcription failure (server error event, transport read
\* error or close): realtime.rs's receiver task breaks and the event relay of
\* lines 137-141 emits session-error and breaks. The audio loop reads nothing
\* of it.
RtFail(s) ==
    /\ task[s] \in {"check", "recv", "append", "send"}
    /\ ~RtFailed(s)
    /\ failedAt' = [failedAt EXCEPT ![s] = Len(buf[s])]
    /\ UNCHANGED <<ncalls, invoker, active, mutex, dbRows, pc, loc, ret, cap, chan, ncb, task, cur,
                   buf, stopSig, sent, ended, emitted>>
    /\ UNCHANGED nonSession


\* =================================================== mistral/realtime.rs
API_SAMPLE_RATE == 16000
Rates == {16000, 48000, 8000}

\* The ratio from_rate / to_rate is used in lowest terms, which keeps the
\* products of the interpolation small.
RECURSIVE Gcd(_, _)
Gcd(a, b) == IF b = 0 THEN a ELSE Gcd(b, a % b)

\* Rust's f64::round on the rational n/d (d > 0): half away from zero.
RoundDiv(n, d) ==
    IF n >= 0 THEN (2 * n + d) \div (2 * d) ELSE -((2 * (-n) + d) \div (2 * d))

\* A resampler without the early return of lines 84-86 (sensitivity variant
\* of Resample): equal non-zero rates interpolate with frac = 0; with
\* from_rate = to_rate = 0 the ratio is NaN and out_len = NaN as usize = 0.
Resample_NoEarlyReturn(samples, from_rate, to_rate) ==
    IF from_rate = 0 \/ samples = <<>>
    THEN <<>>
    ELSE LET n == Len(samples)
             g == Gcd(from_rate, to_rate)
             from == from_rate \div g
             to == to_rate \div g
             out_len == (n * to + from - 1) \div from
             At(i) ==
                 LET idx == (i * from) \div to
                     r == (i * from) % to
                 IN IF idx + 1 < n
                    THEN RoundDiv(samples[idx + 1] * (to - r) + samples[idx + 2] * r, to)
                    ELSE samples[(IF idx < n - 1 THEN idx ELSE n - 1) + 1]
         IN [k \in 1..out_len |-> At(k - 1)]

\* A resampler whose output length is rounded down instead of up
\* (sensitivity variant of Resample).
Resample_FloorLen(samples, from_rate, to_rate) ==
    IF from_rate = to_rate \/ samples = <<>>
    THEN samples
    ELSE LET n == Len(samples)
             g == Gcd(from_rate, to_rate)
             from == from_rate \div g
             to == to_rate \div g
             out_len == (n * to) \div from
             At(i) ==
                 LET idx == (i * from) \div to
                     r == (i * from) % to
                 IN IF idx + 1 < n
                    THEN RoundDiv(samples[idx + 1] * (to - r) + samples[idx + 2] * r, to)
                    ELSE samples[(IF idx < n - 1 THEN idx ELSE n - 1) + 1]
         IN [k \in 1..out_len |-> At(k - 1)]

\* Lines 83-102, resample: linear interpolation from from_rate to to_rate.
\* ratio = from/to; out_len = ceil(len / ratio); src_pos = i * ratio.
Resample(samples, from_rate, to_rate) ==
    IF from_rate = to_rate \/ samples = <<>>
    THEN samples
    ELSE LET n == Len(samples)
             g == Gcd(from_rate, to_rate)
             from == from_rate \div g
             to == to_rate \div g
             out_len == (n * to + from - 1) \div from
             At(i) ==
                 LET idx == (i * from) \div to
                     r == (i * from) % to
                 IN IF idx + 1 < n
                    THEN RoundDiv(samples[idx + 1] * (to - r) + samples[idx + 2] * r, to)
                    ELSE samples[(IF idx < n - 1 THEN idx ELSE n - 1) + 1]
         IN [k \in 1..out_len |-> At(k - 1)]

\* Lines 236-239: each i16 as two little-endian bytes.
RECURSIVE LeBytes(_)
LeBytes(samples) ==
    IF samples = <<>> THEN <<>>
    ELSE LET u == Head(samples) % 65536
         IN <<u % 256, u \div 256>> \o LeBytes(Tail(samples))

\* Line 240, b64.encode: the standard base64 text as indices into the
\* alphabet, 64 standing for the padding character.
RECURSIVE Base64(_)
Base64(bytes) ==
    IF bytes = <<>> THEN <<>>
    ELSE LET b1 == bytes[1]
             b2 == IF Len(bytes) >= 2 THEN bytes[2] ELSE 0
             b3 == IF Len(bytes) >= 3 THEN bytes[3] ELSE 0
             v == b1 * 65536 + b2 * 256 + b3
             rest == IF Len(bytes) > 3 THEN SubSeq(bytes, 4, Len(bytes)) ELSE <<>>
         IN << v \div 262144,
               (v \div 4096) % 64,
               IF Len(bytes) >= 2 THEN (v \div 64) % 64 ELSE 64,
               IF Len(bytes) >= 3 THEN v % 64 ELSE 64 >> \o Base64(rest)

\* Outbound messages (lines 174-182, 241-244, 254).
SessionUpdateMsg ==
    [type |-> "session.update", encoding |-> "pcm_s16le",
     sample_rate |-> API_SAMPLE_RATE, audio |-> <<>>]
AppendMsg(samples, rate) ==
    [type |-> "input_audio.append", encoding |-> "", sample_rate |-> 0,
     audio |-> Base64(LeBytes(Resample(samples, rate, API_SAMPLE_RATE)))]
EndMsg ==
    [type |-> "input_audio.end", encoding |-> "", sample_rate |-> 0, audio |-> <<>>]

Out(msg) == [dir |-> "out", msg |-> msg]
InAck(kind) ==
    [dir |-> "in",
     msg |-> [type |-> kind, encoding |-> "", sample_rate |-> 0, audio |-> <<>>]]

\* What ws_read.next() can return: a text message of one of the WsIncoming
\* shapes, a text message that does not parse, a non-text frame, a Close
\* frame, a read error, or None ("eof").
TextKinds == {"session.created", "session.updated", "error",
              "transcription.language", "transcription.text.delta",
              "transcription.segment", "transcription.done"}
Items == TextKinds \cup {"unparseable", "binary", "close", "read_err", "eof"}

\* The items the transport can yield next: after a Close frame the stream only
\* ends or fails, after None it has ended; at most MaxInbound items arrive.
CanRead(item) ==
    /\ wsIn # "ended"
    /\ wsIn = "closing" => item \in {"eof", "read_err"}
    /\ nread >= MaxInbound => item = "eof"

\* Effect of one ws_read.next() on the transport and on the history.
ReadEffect(item) ==
    /\ nread' = nread + 1
    /\ lastIn' = item
    /\ wsIn' = IF item \in {"eof", "read_err"} THEN "ended"
               ELSE IF item = "close" THEN "closing" ELSE wsIn

\* A handshake wait that takes either acknowledgment for the expected one
\* (sensitivity variant of HandshakeVerdict).
HandshakeVerdict_AnyAck(item, expected) ==
    IF item = "eof" THEN "closed"
    ELSE IF item = "read_err" THEN "read_error"
    ELSE IF item \in {"session.created", "session.updated"} THEN "ack"
    ELSE IF item = "error" THEN "server_error"
    ELSE "skip"

\* A handshake wait that skips server error messages (sensitivity variant of
\* HandshakeVerdict).
HandshakeVerdict_IgnoreError(item, expected) ==
    IF item = "eof" THEN "closed"
    ELSE IF item = "read_err" THEN "read_error"
    ELSE IF item = expected THEN "ack"
    ELSE "skip"

\* Lines 144-165 and 190-211, one iteration of a handshake wait for the
\* acknowledgment `expected`: a read error and a server error are fatal, None
\* ends the loop without the acknowledgment, every other item is skipped.
HandshakeVerdict(item, expected) ==
    IF item = "eof" THEN "closed"
    ELSE IF item = "read_err" THEN "read_error"
    ELSE IF item = expected THEN "ack"
    ELSE IF item = "error" THEN "server_error"
    ELSE "skip"

HandshakeError(verdict) ==
    IF verdict = "closed" THEN "ErrClosed"
    ELSE IF verdict = "read_error" THEN "ErrRead" ELSE "ErrServer"

\* The acknowledgments go to the history whenever they are read.
LogAck(item) ==
    IF item \in {"session.created", "session.updated"}
    THEN Append(wire, InAck(item)) ELSE wire

InitRT ==
    /\ srcRate = 0
    /\ rtpc = "start"
    /\ rtres = "none"
    /\ wsIn = "open"
    /\ nread = 0
    /\ lastIn = "none"
    /\ handle = "none"
    /\ audioq = <<>>
    /\ sender = "none"
    /\ receiver = "none"
    /\ events = <<>>
    /\ nhcalls = 0
    /\ relay = "none"
    /\ nrelayed = 0
    /\ wire = <<>>
    /\ sendLog = <<>>
    /\ endMark = -1
    /\ inEvents = <<>>

\* Lines 111-140: connect_realtime(api_key, source_sample_rate) is called:
\* build the request, connect_async, split the stream.
RtConnect(rate) ==
    /\ rtpc = "start"
    /\ srcRate' = rate
    /\ \E ok \in BOOLEAN :
         IF ok THEN rtpc' = "wait_created" /\ rtres' = rtres
         ELSE rtpc' = "err" /\ rtres' = "ErrConnect"
    /\ UNCHANGED <<relay, nrelayed, endMark, wsIn, nread, lastIn, handle, audioq, sender,
                   receiver, events, nhcalls, wire, sendLog, inEvents>>
    /\ UNCHANGED nonRT

\* Lines 142-168: wait for session.created.
RtWaitCreated(item) ==
    /\ rtpc = "wait_created"
    /\ CanRead(item)
    /\ ReadEffect(item)
    /\ wire' = LogAck(item)
    /\ LET v == HandshakeVerdict(item, "session.created") IN
       IF v = "ack" THEN rtpc' = "send_update" /\ rtres' = rtres
       ELSE IF v = "skip" THEN UNCHANGED <<rtpc, rtres>>
       ELSE rtpc' = "err" /\ rtres' = HandshakeError(v)
    /\ UNCHANGED <<relay, nrelayed, endMark, srcRate, handle, audioq, sender, receiver, events, nhcalls,
                   sendLog, inEvents>>
    /\ UNCHANGED nonRT

\* Lines 172-186: send session.update.
RtSendUpdate ==
    /\ rtpc = "send_update"
    /\ \E ok \in BOOLEAN :
         IF ok
         THEN /\ wire' = Append(wire, Out(SessionUpdateMsg))
              /\ rtpc' = "wait_updated"
              /\ rtres' = rtres
         ELSE /\ wire' = wire
              /\ rtpc' = "err"
              /\ rtres' = "ErrSend"
    /\ UNCHANGED <<relay, nrelayed, endMark, srcRate, wsIn, nread, lastIn, handle, audioq, sender,
                   receiver, events, nhcalls, sendLog, inEvents>>
    /\ UNCHANGED nonRT

\* Lines 188-319: wait for session.updated; then create the channels, spawn
\* the sender and the receiver task and return the handle.
RtWaitUpdated(item) ==
    /\ rtpc = "wait_updated"
    /\ CanRead(item)
    /\ ReadEffect(item)
    /\ wire' = LogAck(item)
    /\ LET v == HandshakeVerdict(item, "session.updated") IN
       IF v = "ack"
       THEN /\ rtpc' = "ok"
            /\ rtres' = "Ok"
            /\ handle' = "live"
            /\ sender' = "run"
            /\ receiver' = "run"
       ELSE IF v = "skip" THEN UNCHANGED <<rtpc, rtres, handle, sender, receiver>>
       ELSE /\ rtpc' = "err"
            /\ rtres' = HandshakeError(v)
            /\ UNCHANGED <<handle, sender, receiver>>
    /\ UNCHANGED <<relay, nrelayed, endMark, srcRate, audioq, events, nhcalls, sendLog, inEvents>>
    /\ UNCHANGED nonRT

\* Lines 59-61, RealtimeHandle::send_audio: tx.send(Chunk), result ignored (the
\* send fails once the sender task has dropped the receiving end).
SendAudio(len) ==
    /\ handle = "live"
    /\ nhcalls < MaxHandleCalls
    /\ nhcalls' = nhcalls + 1
    /\ LET chunk == Chunk(nhcalls + 1, len) IN
       /\ sendLog' = Append(sendLog, chunk)
       /\ audioq' = IF sender = "run"
                    THEN Append(audioq, [kind |-> "Chunk", samples |-> chunk])
                    ELSE audioq
    /\ UNCHANGED <<relay, nrelayed, endMark, srcRate, rtpc, rtres, wsIn, nread, lastIn, handle, sender,
                   receiver, events, wire, inEvents>>
    /\ UNCHANGED nonRT

\* Lines 64-66, RealtimeHandle::end_audio: tx.send(End), result ignored.
EndAudio ==
    /\ handle = "live"
    /\ nhcalls < MaxHandleCalls
    /\ nhcalls' = nhcalls + 1
    /\ audioq' = IF sender = "run"
                 THEN Append(audioq, [kind |-> "End", samples |-> <<>>])
                 ELSE audioq
    /\ endMark' = IF endMark < 0 THEN Len(sendLog) ELSE endMark
    /\ UNCHANGED <<relay, nrelayed, srcRate, rtpc, rtres, wsIn, nread, lastIn, handle, sender,
                   receiver, events, wire, sendLog, inEvents>>
    /\ UNCHANGED nonRT

\* The owner drops the RealtimeHandle (commands.rs line 183, the task returns).
DropHandle ==
    /\ handle = "live"
    /\ handle' = "dropped"
    /\ UNCHANGED <<relay, nrelayed, endMark, srcRate, rtpc, rtres, wsIn, nread, lastIn, audioq, sender,
                   receiver, events, nhcalls, wire, sendLog, inEvents>>
    /\ UNCHANGED nonRT

\* A sender task that takes the newest queued message first (sensitivity
\* variant of SenderStep).
SenderStep_Lifo ==
    /\ sender = "run"
    /\ IF audioq # <<>>
       THEN LET m == audioq[Len(audioq)]
                rest == SubSeq(audioq, 1, Len(audioq) - 1)
            IN
            IF m.kind = "Chunk"
            THEN \E ok \in BOOLEAN :
                   IF ok
                   THEN /\ wire' = Append(wire, Out(AppendMsg(m.samples, srcRate)))
                        /\ audioq' = rest
                        /\ sender' = sender
                   ELSE /\ wire' = wire
                        /\ audioq' = <<>>
                        /\ sender' = "done"
            ELSE /\ \E ok \in BOOLEAN :
                      wire' = IF ok THEN Append(wire, Out(EndMsg)) ELSE wire
                 /\ audioq' = <<>>
                 /\ sender' = "done"
       ELSE /\ handle = "dropped"
            /\ sender' = "done"
            /\ UNCHANGED <<wire, audioq>>
    /\ UNCHANGED <<relay, nrelayed, endMark, srcRate, rtpc, rtres, wsIn, nread, lastIn, handle,
                   receiver, events, nhcalls, sendLog, inEvents>>
    /\ UNCHANGED nonRT

\* A sender task that keeps running after the end-of-audio marker
\* (sensitivity variant of SenderStep).
SenderStep_NoBreakOnEnd ==
    /\ sender = "run"
    /\ IF audioq # <<>>
       THEN LET m == Head(audioq) IN
            IF m.kind = "Chunk"
            THEN \E ok \in BOOLEAN :
                   IF ok
                   THEN /\ wire' = Append(wire, Out(AppendMsg(m.samples, srcRate)))
                        /\ audioq' = Tail(audioq)
                        /\ sender' = sender
                   ELSE /\ wire' = wire
                        /\ audioq' = <<>>
                        /\ sender' = "done"
            ELSE /\ \E ok \in BOOLEAN :
                      wire' = IF ok THEN Append(wire, Out(EndMsg)) ELSE wire
                 /\ audioq' = Tail(audioq)
                 /\ sender' = sender
       ELSE /\ handle = "dropped"
            /\ sender' = "done"
            /\ UNCHANGED <<wire, audioq>>
    /\ UNCHANGED <<relay, nrelayed, endMark, srcRate, rtpc, rtres, wsIn, nread, lastIn, handle,
                   receiver, events, nhcalls, sendLog, inEvents>>
    /\ UNCHANGED nonRT

\* Lines 227-262, one iteration of the sender task: audio_rx.recv() returns a
\* message, or None once the queue is empty and the handle is dropped.
SenderStep ==
    /\ sender = "run"
    /\ IF audioq # <<>>
       THEN LET m == Head(audioq) IN
            IF m.kind = "Chunk"
            THEN \E ok \in BOOLEAN :
                   IF ok
                   THEN /\ wire' = Append(wire, Out(AppendMsg(m.samples, srcRate)))
                        /\ audioq' = Tail(audioq)
                        /\ sender' = sender
                   ELSE /\ wire' = wire
                        /\ audioq' = <<>>
                        /\ sender' = "done"
            ELSE /\ \E ok \in BOOLEAN :
                      wire' = IF ok THEN Append(wire, Out(EndMsg)) ELSE wire
                 /\ audioq' = <<>>
                 /\ sender' = "done"
       ELSE /\ handle = "dropped"
            /\ sender' = "done"
            /\ UNCHANGED <<wire, audioq>>
    /\ UNCHANGED <<relay, nrelayed, endMark, srcRate, rtpc, rtres, wsIn, nread, lastIn, handle,
                   receiver, events, nhcalls, sendLog, inEvents>>
    /\ UNCHANGED nonRT

\* The event the receiver task sends for an item, tagged with the item's
\* position in the transport's stream.
Event(kind, n) == [type |-> kind, n |-> n]

\* Lines 266-316, what one iteration of the receiver task does with an item:
\* the event it sends ("" for none) and whether it leaves the loop.
ReceiverEvent(item) ==
    IF item = "read_err" THEN "Error"
    ELSE IF item = "transcription.text.delta" THEN "TextDelta"
    ELSE IF item = "transcription.segment" THEN "Segment"
    ELSE IF item = "transcription.done" THEN "Done"
    ELSE IF item = "transcription.language" THEN "Language"
    ELSE IF item = "error" THEN "Error"
    ELSE ""

\* A receiver task that keeps reading after a server error (sensitivity variant
\* of ReceiverBreaks).
ReceiverBreaks_NotOnError(item) ==
    item \in {"eof", "read_err", "transcription.done", "close"}

\* A receiver task that keeps reading after transcription.done (sensitivity
\* variant of ReceiverBreaks).
ReceiverBreaks_NotOnDone(item) ==
    item \in {"eof", "read_err", "error", "close"}

\* A receiver task that gives up on a message it cannot parse (sensitivity
\* variant of ReceiverBreaks).
ReceiverBreaks_OnUnparseable(item) ==
    item \in {"eof", "read_err", "transcription.done", "error", "close", "unparseable"}

ReceiverBreaks(item) ==
    item \in {"eof", "read_err", "transcription.done", "error", "close"}

\* Lines 265-317, one iteration of the receiver task.
ReceiverStep(item) ==
    /\ receiver = "run"
    /\ CanRead(item)
    /\ ReadEffect(item)
    /\ wire' = LogAck(item)
    /\ LET e == ReceiverEvent(item) IN
       /\ events' = IF e # "" THEN Append(events, Event(e, nread + 1)) ELSE events
       /\ inEvents' = IF e # "" THEN Append(inEvents, Event(item, nread + 1))
                      ELSE inEvents
    /\ receiver' = IF ReceiverBreaks(item) THEN "done" ELSE "run"
    /\ UNCHANGED <<relay, nrelayed, endMark, srcRate, rtpc, rtres, handle, audioq, sender, nhcalls, sendLog>>
    /\ UNCHANGED nonRT

\* commands.rs lines 100-104: connect_realtime returned Ok and the caller
\* spawns the task that relays the events to the UI.
RelaySpawn ==
    /\ rtpc = "ok"
    /\ relay = "none"
    /\ relay' = "run"
    /\ UNCHANGED <<nrelayed, endMark, srcRate, rtpc, rtres, wsIn, nread, lastIn, handle,
                   audioq, sender, receiver, events, nhcalls, wire, sendLog, inEvents>>
    /\ UNCHANGED nonRT

\* commands.rs lines 105-144, one iteration of the relay: rt_events.recv()
\* returns the next event, or None once the channel is empty and the receiver
\* task has dropped event_tx; an Error event ends the loop.
RelayStep ==
    /\ relay = "run"
    /\ IF nrelayed < Len(events)
       THEN /\ nrelayed' = nrelayed + 1
            /\ relay' = IF events[nrelayed + 1].type = "Error" THEN "done" ELSE "run"
       ELSE /\ receiver = "done"
            /\ relay' = "done"
            /\ nrelayed' = nrelayed
    /\ UNCHANGED <<endMark, srcRate, rtpc, rtres, wsIn, nread, lastIn, handle,
                   audioq, sender, receiver, events, nhcalls, wire, sendLog, inEvents>>
    /\ UNCHANGED nonRT

NextRT ==
    \/ \E rate \in Rates : RtConnect(rate)
    \/ \E item \in Items : RtWaitCreated(item)
    \/ RtSendUpdate
    \/ \E item \in Items : RtWaitUpdated(item)
    \/ \E len \in ChunkLens : SendAudio(len)
    \/ EndAudio
    \/ DropHandle
    \/ SenderStep
    \/ \E item \in Items : ReceiverStep(item)
    \/ RelaySpawn
    \/ RelayStep

\* ====================================================== audio/capture.rs
\* A division that rounds toward minus infinity (sensitivity variant of
\* TruncDiv).
TruncDiv_Floor(a, b) == a \div b

\* Rust's integer division: truncation toward zero.
TruncDiv(a, b) == IF a >= 0 THEN a \div b ELSE -((-a) \div b)

\* An `as i16` cast of an i32: the low 16 bits, two's complement.
AsI16(x) == ((x + 32768) % 65536) - 32768

RECURSIVE SumSeq(_)
SumSeq(q) == IF q = <<>> THEN 0 ELSE Head(q) + SumSeq(Tail(q))

\* Lines 575-585, downmix_to_mono_i16: identity for one channel, else the
\* mean of each complete frame (chunks_exact drops a trailing partial frame).
Downmix(data, channels) ==
    IF channels = 1 THEN data
    ELSE [i \in 1..(Len(data) \div channels) |->
            AsI16(TruncDiv(SumSeq(SubSeq(data, (i - 1) * channels + 1, i * channels)),
                           channels))]

\* Lines 594-613, resample_simple: linear interpolation, out_len =
\* ceil(len / (from/to)), src_pos = i * from/to.
ResampleSimple(samples, from_rate, to_rate) ==
    IF from_rate = to_rate \/ samples = <<>>
    THEN samples
    ELSE LET n == Len(samples)
             g == Gcd(from_rate, to_rate)
             from == from_rate \div g
             to == to_rate \div g
             out_len == (n * to + from - 1) \div from
             At(i) ==
                 LET idx == (i * from) \div to
                     r == (i * from) % to
                 IN IF idx + 1 < n
                    THEN RoundDiv(samples[idx + 1] * (to - r) + samples[idx + 2] * r, to)
                    ELSE samples[(IF idx < n - 1 THEN idx ELSE n - 1) + 1]
         IN [k \in 1..out_len |-> At(k - 1)]

\* ======================================================== audio/mixer.rs
\* A mix that wraps around like an `as i16` cast instead of clamping
\* (sensitivity variant of Clamp16).
Clamp16_Wrap(x) == AsI16(x)

\* Line 9: (sa + sb).clamp(i16::MIN as i32, i16::MAX as i32) as i16.
Clamp16(x) == IF x < -32768 THEN -32768 ELSE IF x > 32767 THEN 32767 ELSE x

\* Lines 3-12, mix_samples: len = max of the lengths; a.get(i).unwrap_or(&0).
MixSamples(a, b) ==
    LET len == IF Len(a) >= Len(b) THEN Len(a) ELSE Len(b)
        sa(i) == IF i <= Len(a) THEN a[i] ELSE 0
        sb(i) == IF i <= Len(b) THEN b[i] ELSE 0
    IN [i \in 1..len |-> Clamp16(sa(i) + sb(i))]

\* The devices a capturer can meet. The unit of time of a callback's buffer is
\* one sample period of the slowest rate.
Modes == {"InPerson", "Visio"}
Platforms == {"macos", "windows"}
ChannelCounts == {1, 2}
UnitRate == CHOOSE r \in Rates : \A q \in Rates : r <= q
Durations == {2}
Sources == {"mic", "sys"}

\* The interleaved i16 data the hardware hands to callback k: frames frames of
\* channels samples.
RawData(k, frames, channels) == [i \in 1..(frames * channels) |-> 100 * k + 7 * i]

NoCallback == [k |-> 0, dur |-> 0]

\* Lines 29-41, AudioCapturer::new; the capturer does not exist before.
InitCap ==
    /\ acPc = "none"
    /\ acMode = "InPerson"
    /\ acDev = [platform |-> "macos", rate |-> 16000, channels |-> 1,
                sys_rate |-> 16000, sys_channels |-> 1]
    /\ acCapturing = FALSE
    /\ acStream = FALSE
    /\ acSysStream = FALSE
    /\ acRate = 16000
    /\ acSrcRate = 0
    /\ acCb = [src \in Sources |-> NoCallback]
    /\ acChan = <<>>
    /\ acNcb = 0
    /\ acOps = 0
    /\ acLog = <<>>
    /\ acStopped = FALSE
    /\ acFrames = <<>>

\* Lines 29-41: AudioCapturer::new(mode, device_name), on a machine whose
\* input device negotiates (rate, channels) and whose system-audio source runs
\* at (sys_rate, sys_channels): ScreenCaptureKit is configured to 16 kHz mono
\* (lines 128-134), the WASAPI loopback runs at the output device's rate. An
\* InPerson capturer opens no system-audio source, on either platform.
CapNew(mode, dev) ==
    /\ acPc = "none"
    /\ dev.platform = "macos" => (dev.sys_rate = 16000 /\ dev.sys_channels = 1)
    /\ mode = "InPerson" => (dev.platform = "macos")
    /\ acPc' = "idle"
    /\ acMode' = mode
    /\ acDev' = dev
    /\ UNCHANGED <<acCapturing, acStream, acSysStream, acRate, acSrcRate, acCb, acChan,
                   acNcb, acOps, acLog, acStopped, acFrames>>
    /\ UNCHANGED nonCap

\* The last method that returned.
LastOp == IF acLog = <<>> THEN "none" ELSE acLog[Len(acLog)]

\* The microphone leg of a start, lines 404-506 (start_mic_capture, InPerson)
\* and 299-401 (start_visio_mic, Visio). "early_err": no device or no config;
\* "late_err": the stream could not be built or played, after
\* actual_sample_rate was written; "ok": play(), capturing.store(true),
\* self.stream = Some(stream).
\* A capturer that reports the device's rate in both modes (sensitivity variant
\* of MicLegRate).
MicLegRate_DeviceRate == acDev.rate

\* A capturer that reports 16 kHz whatever the device negotiated (sensitivity
\* variant of MicLegRate).
MicLegRate_Always16k == IF acMode = "Visio" THEN 16000 ELSE API_SAMPLE_RATE

MicLegRate == IF acMode = "Visio" THEN 16000 ELSE acDev.rate

MicLeg(outcome) ==
    /\ acRate' = IF outcome = "early_err" THEN acRate ELSE MicLegRate
    /\ acCapturing' = IF outcome = "ok" THEN TRUE ELSE acCapturing
    /\ acStream' = IF outcome = "ok" THEN TRUE ELSE acStream
    /\ acSrcRate' = IF outcome = "ok" THEN acRate' ELSE acSrcRate
    /\ acLog' = Append(acLog, IF outcome = "ok" THEN "start_ok" ELSE "start_err")
    /\ acPc' = "idle"

\* Lines 46-53, AudioCapturer::start. InPerson: the microphone leg. Visio:
\* first the system-audio stream (lines 105-184 or 190-285), which is stored in
\* the capturer before the microphone leg runs; a failure returns at once.
CapStart ==
    /\ acPc = "idle"
    /\ acOps < MaxCapOps
    /\ acOps' = acOps + 1
    /\ IF acMode = "InPerson"
       THEN /\ \E outcome \in {"ok", "early_err", "late_err"} : MicLeg(outcome)
            /\ UNCHANGED acSysStream
       ELSE /\ \E ok \in BOOLEAN :
                 IF ok
                 THEN /\ acSysStream' = TRUE
                      /\ acPc' = "start_mic"
                      /\ acLog' = acLog
                 ELSE /\ acSysStream' = acSysStream
                      /\ acPc' = "idle"
                      /\ acLog' = Append(acLog, "start_err")
            /\ UNCHANGED <<acRate, acCapturing, acStream, acSrcRate>>
    /\ UNCHANGED <<acMode, acDev, acCb, acChan, acNcb, acStopped, acFrames>>
    /\ UNCHANGED nonCap

\* Lines 179 and 280, then 299-401: the microphone leg of a Visio start.
CapStartMic ==
    /\ acPc = "start_mic"
    /\ \E outcome \in {"ok", "early_err", "late_err"} : MicLeg(outcome)
    /\ UNCHANGED <<acMode, acDev, acSysStream, acCb, acChan, acNcb, acOps, acStopped,
                   acFrames>>
    /\ UNCHANGED nonCap

\* A stop that releases the microphone stream only and keeps the system-audio
\* stream (sensitivity variant of CapStopTeardown).
CapStopTeardown_MicOnly ==
    /\ acPc = "stop_teardown"
    /\ acSysStream' = acSysStream
    /\ acStream' = FALSE
    /\ acPc' = "idle"
    /\ acLog' = Append(acLog, "stop")
    /\ acStopped' = TRUE
    /\ UNCHANGED <<acMode, acDev, acCapturing, acRate, acSrcRate, acCb, acChan, acNcb,
                   acOps, acFrames>>
    /\ UNCHANGED nonCap

\* Line 57, AudioCapturer::stop: capturing.store(false).
CapStopFlag ==
    /\ acPc = "idle"
    /\ acOps < MaxCapOps
    /\ acOps' = acOps + 1
    /\ acCapturing' = FALSE
    /\ acPc' = "stop_teardown"
    /\ UNCHANGED <<acMode, acDev, acStream, acSysStream, acRate, acSrcRate, acCb, acChan,
                   acNcb, acLog, acStopped, acFrames>>
    /\ UNCHANGED nonCap

\* A teardown that returns while a callback is still running on the stream
\* (sensitivity variant of Joined).
Joined_NoWait(live, src) == TRUE

\* A stream's teardown returns once the callback running on it has returned.
Joined(live, src) == live => acCb[src] = NoCallback

\* Lines 58-75: the system-audio stream and the microphone stream are taken
\* out of their Options, stopped and dropped; stop returns.
CapStopTeardown ==
    /\ acPc = "stop_teardown"
    /\ Joined(acSysStream, "sys")
    /\ Joined(acStream, "mic")
    /\ acSysStream' = FALSE
    /\ acStream' = FALSE
    /\ acPc' = "idle"
    /\ acLog' = Append(acLog, "stop")
    /\ acStopped' = TRUE
    /\ UNCHANGED <<acMode, acDev, acCapturing, acRate, acSrcRate, acCb, acChan, acNcb,
                   acOps, acFrames>>
    /\ UNCHANGED nonCap

\* Whether the source's stream is held by the capturer.
StreamLive(src) == IF src = "mic" THEN acStream ELSE acSysStream

\* A callback that does not test the flag (sensitivity variant of CbCheck).
CbCheck_NoFlagTest(src, dur) ==
    /\ acPc # "none"
    /\ StreamLive(src)
    /\ acCb[src] = NoCallback
    /\ acNcb < MaxCapCallbacks
    /\ acNcb' = acNcb + 1
    /\ acCb' = [acCb EXCEPT ![src] = [k |-> acNcb + 1, dur |-> dur]]
    /\ UNCHANGED <<acPc, acMode, acDev, acCapturing, acStream, acSysStream, acRate,
                   acSrcRate, acChan, acOps, acLog, acStopped, acFrames>>
    /\ UNCHANGED nonCap

\* Lines 436-440 (and 149-151, 227-229, 346-348): a callback starts on a live
\* stream with a buffer of dur time units and tests the flag:
\* if !capturing.load() { return; }.
CbCheck(src, dur) ==
    /\ acPc # "none"
    /\ StreamLive(src)
    /\ acCb[src] = NoCallback
    /\ acNcb < MaxCapCallbacks
    /\ acNcb' = acNcb + 1
    /\ acCb' = IF acCapturing
               THEN [acCb EXCEPT ![src] = [k |-> acNcb + 1, dur |-> dur]]
               ELSE acCb
    /\ UNCHANGED <<acPc, acMode, acDev, acCapturing, acStream, acSysStream, acRate,
                   acSrcRate, acChan, acOps, acLog, acStopped, acFrames>>
    /\ UNCHANGED nonCap

\* What a callback makes of its buffer. Microphone, InPerson (lines 441-442):
\* downmix. Microphone, Visio (lines 349-351): downmix, resample to 16000.
\* System audio on macOS (lines 153-171): the 16 kHz mono buffer as it is. On
\* Windows (lines 230-233): downmix, resample from the loopback rate to 16000.
CallbackChunk(src, k, dur) ==
    IF src = "mic"
    THEN LET mono == Downmix(RawData(k, (acDev.rate \div UnitRate) * dur, acDev.channels),
                             acDev.channels)
         IN IF acMode = "Visio" THEN ResampleSimple(mono, acDev.rate, 16000) ELSE mono
    ELSE LET raw == RawData(k, (acDev.sys_rate \div UnitRate) * dur, acDev.sys_channels)
         IN IF acDev.platform = "macos" THEN raw
            ELSE ResampleSimple(Downmix(raw, acDev.sys_channels), acDev.sys_rate, 16000)

\* The chunk the callback in flight on src sends, tagged with its source and
\* its callback number.
SentChunk(src) ==
    [src |-> src, k |-> acCb[src].k, dur |-> acCb[src].dur,
     samples |-> CallbackChunk(src, acCb[src].k, acCb[src].dur)]

\* A channel that hands out the newest chunk first (sensitivity variant of
\* CbSend).
CbSend_Lifo(src) ==
    /\ acCb[src] # NoCallback
    /\ acChan' = <<SentChunk(src)>> \o acChan
    /\ acCb' = [acCb EXCEPT ![src] = NoCallback]
    /\ UNCHANGED <<acPc, acMode, acDev, acCapturing, acStream, acSysStream, acRate,
                   acSrcRate, acNcb, acOps, acLog, acStopped, acFrames>>
    /\ UNCHANGED nonCap

\* Lines 441-443: the callback converts its buffer and sends the chunk
\* (tx.send on the unbounded std::sync::mpsc channel both producers share).
CbSend(src) ==
    /\ acCb[src] # NoCallback
    /\ acChan' = Append(acChan, SentChunk(src))
    /\ acCb' = [acCb EXCEPT ![src] = NoCallback]
    /\ UNCHANGED <<acPc, acMode, acDev, acCapturing, acStream, acSysStream, acRate,
                   acSrcRate, acNcb, acOps, acLog, acStopped, acFrames>>
    /\ UNCHANGED nonCap

\* commands.rs lines 63-64, 77, 81-85 and 153-171, realtime.rs lines 231-234:
\* the caller read actual_sample_rate after start returned Ok and gave it to
\* connect_realtime; a chunk taken from the channel goes to send_audio and the
\* sender task resamples it from that rate to 16000.
CapForward ==
    /\ acSrcRate # 0
    /\ acChan # <<>>
    /\ acChan' = Tail(acChan)
    /\ acFrames' = Append(acFrames,
                          [src |-> Head(acChan).src, k |-> Head(acChan).k,
                           dur |-> Head(acChan).dur,
                           samples |-> Resample(Head(acChan).samples, acSrcRate,
                                                API_SAMPLE_RATE)])
    /\ UNCHANGED <<acPc, acMode, acDev, acCapturing, acStream, acSysStream, acRate,
                   acSrcRate, acCb, acNcb, acOps, acLog, acStopped>>
    /\ UNCHANGED nonCap

Devices ==
    [platform : Platforms, rate : Rates, channels : ChannelCounts,
     sys_rate : Rates, sys_channels : ChannelCounts]

NextCap ==
    \/ \E mode \in Modes, dev \in Devices : CapNew(mode, dev)
    \/ CapStart
    \/ CapStartMic
    \/ CapStopFlag
    \/ CapStopTeardown
    \/ \E src \in Sources, dur \in Durations : CbCheck(src, dur)
    \/ \E src \in Sources : CbSend(src)
    \/ CapForward

\* ------------------------------------------------- calls of pure functions
\* The i16 samples the calls are tried on: the extremes, values around zero
\* and the values of the documented stereo example.
SampleValues == {-32768, -2000, -1000, -1, 0, 1, 500, 1000, 32767}

\* The sequences over S of length at most n.
SeqsUpTo(S, n) == UNION {[1..k -> S] : k \in 0..n}

InitFn ==
    /\ fnName = "none"
    /\ fnArgs = <<>>
    /\ fnOut = <<>>
    /\ fnPanicked = FALSE

\* The rates the resamplers are called with: the device rates and the
\* degenerate rate 0 (from_rate and to_rate are u32).
FnRates == Rates \cup {0}

\* capture.rs line 579: data.chunks_exact(channels) panics for a chunk size
\* of 0, whatever the data.
DownmixPanics(data, channels) == channels = 0

\* realtime.rs lines 87-89 (capture.rs lines 598-600): past the early return,
\* from_rate = 0 gives ratio = 0.0 and len / ratio = +inf, which `as usize`
\* saturates to usize::MAX; Vec::with_capacity(usize::MAX) panics with a
\* capacity overflow. (to_rate = 0 gives ratio = +inf and out_len = 0.)
ResamplePanics(samples, from_rate, to_rate) ==
    from_rate # to_rate /\ samples # <<>> /\ from_rate = 0

\* capture.rs lines 575-585: one call downmix_to_mono_i16(data, channels).
DownmixCall(data, channels) ==
    /\ fnName = "none"
    /\ fnName' = "downmix_to_mono_i16"
    /\ fnArgs' = [data |-> data, channels |-> channels]
    /\ fnPanicked' = DownmixPanics(data, channels)
    /\ fnOut' = IF fnPanicked' THEN <<>> ELSE Downmix(data, channels)
    /\ UNCHANGED nonFn

\* realtime.rs lines 83-102: one call resample(samples, from_rate, to_rate).
ResampleCall(samples, from_rate, to_rate) ==
    /\ fnName = "none"
    /\ fnName' = "resample"
    /\ fnArgs' = [samples |-> samples, from_rate |-> from_rate, to_rate |-> to_rate]
    /\ fnPanicked' = ResamplePanics(samples, from_rate, to_rate)
    /\ fnOut' = IF fnPanicked' THEN <<>> ELSE Resample(samples, from_rate, to_rate)
    /\ UNCHANGED nonFn

\* capture.rs lines 594-613: one call resample_simple(samples, from_rate,
\* to_rate).
ResampleSimpleCall(samples, from_rate, to_rate) ==
    /\ fnName = "none"
    /\ fnName' = "resample_simple"
    /\ fnArgs' = [samples |-> samples, from_rate |-> from_rate, to_rate |-> to_rate]
    /\ fnPanicked' = ResamplePanics(samples, from_rate, to_rate)
    /\ fnOut' = IF fnPanicked' THEN <<>>
                ELSE ResampleSimple(samples, from_rate, to_rate)
    /\ UNCHANGED nonFn

\* mixer.rs lines 3-12: one call mix_samples(a, b).
MixCall(a, b) ==
    /\ fnName = "none"
    /\ fnName' = "mix_samples"
    /\ fnArgs' = [a |-> a, b |-> b]
    /\ fnPanicked' = FALSE
    /\ fnOut' = MixSamples(a, b)
    /\ UNCHANGED nonFn

\* capture.rs lines 522-524: the supported input ranges a device reports, each
\* with a sample format and a channel count: a range with 16 kHz strictly
\* inside, the range of 16 kHz alone, and a range without 16 kHz.
ConfigRanges ==
    {[min |-> b[1], max |-> b[2], fmt |-> f, channels |-> c] :
        b \in {<<8000, 48000>>, <<16000, 16000>>, <<44100, 48000>>},
        f \in {"I16", "F32", "U16"}, c \in ChannelCounts}

\* No configuration: the Err of select_input_config and of
\* device.default_input_config() (line 567).
NoConfig == [ok |-> FALSE, rate |-> 0, fmt |-> "", channels |-> 0]

\* Line 567: the default input configuration of a device is one of the
\* configurations it supports, at the upper rate of a range, or it cannot be
\* read.
Defaults(ranges) ==
    {[ok |-> TRUE, rate |-> ranges[i].max, fmt |-> ranges[i].fmt,
      channels |-> ranges[i].channels] : i \in 1..Len(ranges)} \cup {NoConfig}

\* Line 534.
Contains16k(r) == r.min <= 16000 /\ r.max >= 16000

\* Lines 536-548: the score of a candidate.
Score(r) ==
    100 + (IF r.fmt = "I16" THEN 20 ELSE IF r.fmt = "F32" THEN 10 ELSE 0)
        + (IF r.channels = 1 THEN 10 ELSE 0)

\* A comparison that lets every candidate replace the best so far
\* (sensitivity variant of Better).
Better_Always(best, score) == TRUE

\* Line 550: the candidate replaces the best so far.
Better(best, score) == ~best.ok \/ score > best.score

\* Lines 528-554: the loop over the supported ranges, in the order the device
\* reports them; line 535 configures the candidate at 16 kHz.
RECURSIVE BestOf(_, _)
BestOf(ranges, best) ==
    IF ranges = <<>>
    THEN best
    ELSE LET r == Head(ranges)
         IN BestOf(Tail(ranges),
                   IF Contains16k(r) /\ Better(best, Score(r))
                   THEN [ok |-> TRUE, rate |-> 16000, fmt |-> r.fmt,
                         channels |-> r.channels, score |-> Score(r)]
                   ELSE best)

\* Lines 515-571, select_input_config on a device: dev.enum_ok is whether
\* supported_input_configs() succeeded (line 523), dev.ranges what it listed,
\* dev.default the default configuration (line 567).
SelectInputConfig(dev) ==
    LET best == BestOf(dev.ranges, [ok |-> FALSE, score |-> 0])
    IN IF ~dev.enum_ok THEN NoConfig
       ELSE IF best.ok
            THEN [ok |-> TRUE, rate |-> best.rate, fmt |-> best.fmt,
                  channels |-> best.channels]
            ELSE dev.default

\* capture.rs lines 515-571: one call select_input_config(device).
SelectCall(dev) ==
    /\ fnName = "none"
    /\ fnName' = "select_input_config"
    /\ fnArgs' = dev
    /\ fnPanicked' = FALSE
    /\ fnOut' = SelectInputConfig(dev)
    /\ UNCHANGED nonFn

\* capture.rs lines 85-101: the names input devices carry, and a configured
\* name no device carries.
DeviceNames == {"mic_a", "mic_b"}

\* No device: host.default_input_device() = None, and the Err of
\* resolve_input_device (lines 99-100).
NoDevice == [id |-> 0, name |-> ""]

\* A resolution that fails when the configured name is absent (sensitivity
\* variant of ResolveInputDevice).
ResolveInputDevice_FailIfAbsent(device_name, listed, default) ==
    LET M == {i \in 1..Len(listed) : listed[i].name = device_name.v}
    IN IF ~device_name.some THEN default
       ELSE IF M # {} THEN listed[CHOOSE i \in M : \A j \in M : i <= j]
       ELSE NoDevice

\* Lines 85-101, resolve_input_device. device_name is self.device_name, listed
\* the devices host.input_devices() yields with a readable name, in order
\* (none when the enumeration fails, line 87), default the result of
\* host.default_input_device(). The first listed device with the configured
\* name is returned (line 92), otherwise the default.
ResolveInputDevice(device_name, listed, default) ==
    LET M == {i \in 1..Len(listed) : listed[i].name = device_name.v}
    IN IF device_name.some /\ M # {}
       THEN listed[CHOOSE i \in M : \A j \in M : i <= j]
       ELSE default

\* capture.rs lines 85-101: one call resolve_input_device(host) of a capturer
\* with the given device_name.
ResolveCall(device_name, listed, default) ==
    /\ fnName = "none"
    /\ fnName' = "resolve_input_device"
    /\ fnArgs' = [device_name |-> device_name, listed |-> listed, default |-> default]
    /\ fnPanicked' = FALSE
    /\ fnOut' = ResolveInputDevice(device_name, listed, default)
    /\ UNCHANGED nonFn

NextFn ==
    /\ fnName = "none"
    /\ \/ \E data \in SeqsUpTo(SampleValues, MaxDataLen), channels \in 0..3 :
            DownmixCall(data, channels)
       \/ \E samples \in SeqsUpTo(SampleValues, MaxResampleLen),
              from_rate \in FnRates, to_rate \in FnRates :
            ResampleCall(samples, from_rate, to_rate)
       \/ \E samples \in SeqsUpTo(SampleValues, MaxResampleLen),
              from_rate \in FnRates, to_rate \in FnRates :
            ResampleSimpleCall(samples, from_rate, to_rate)
       \/ \E a \in SeqsUpTo(SampleValues, MaxMixLen),
              b \in SeqsUpTo(SampleValues, MaxMixLen) :
            MixCall(a, b)
       \/ \E ranges \in SeqsUpTo(ConfigRanges, MaxRanges), enum_ok \in BOOLEAN :
            \E default \in Defaults(ranges) :
                /\ enum_ok \/ (ranges = <<>> /\ default = NoConfig)
                /\ SelectCall([enum_ok |-> enum_ok, ranges |-> ranges,
                               default |-> default])
       \/ \E names \in SeqsUpTo(DeviceNames, MaxDevices),
              device_name \in {[some |-> FALSE, v |-> ""]}
                  \cup {[some |-> TRUE, v |-> n] : n \in DeviceNames \cup {"absent"}} :
            LET listed == [i \in 1..Len(names) |-> [id |-> i, name |-> names[i]]]
            IN \E default \in {listed[i] : i \in 1..Len(listed)}
                       \cup {[id |-> MaxDevices + 1, name |-> n] : n \in DeviceNames}
                       \cup {NoDevice} :
                 \* default_input_device() is None only when the host has no
                 \* input device.
                 /\ default = NoDevice => listed = <<>>
                 /\ ResolveCall(device_name, listed, default)

\* ------------- commands.rs: the segments of one recording in storage
\* The events whose handling the relay distinguishes (lines 106-143).
StoreEvents == {"TextDelta", "Segment", "Done", "Error"}

\* A row of the segments table: is_diarized and the order of its insertion.
Row(diarized, n) == [diarized |-> diarized, n |-> n]

\* commands.rs lines 275-279, db.clear_live_segments(&session_id): removes the
\* live (non-diarized) segments of the session.
ClearLive(rows) == SelectSeq(rows, LAMBDA r : r.diarized)

\* The recording runs: connect_realtime has returned, the relay is spawned
\* (lines 100-104), stop_session has not been called, the table has no row.
InitStore ==
    /\ stSegs = <<>>
    /\ stEvq = <<>>
    /\ stRx = "run"
    /\ stRelay = "run"
    /\ stBatch = "none"
    /\ stNev = 0

\* realtime.rs lines 281-305: the receiver task sends an event; Done and Error
\* end it.
StEvent(type) ==
    /\ stRx = "run"
    /\ stNev < MaxStoreEvents
    /\ stNev' = stNev + 1
    /\ stEvq' = Append(stEvq, type)
    /\ stRx' = IF type \in {"Done", "Error"} THEN "done" ELSE "run"
    /\ UNCHANGED <<stSegs, stRelay, stBatch>>
    /\ UNCHANGED nonStore

\* realtime.rs lines 266 and 312-315: the transport ends, the receiver task
\* returns without an event.
StRxClose ==
    /\ stRx = "run"
    /\ stRx' = "done"
    /\ UNCHANGED <<stSegs, stEvq, stRelay, stBatch, stNev>>
    /\ UNCHANGED nonStore

\* commands.rs lines 105-144, one iteration of the relay: a Segment event is
\* saved with is_diarized = false under the db lock (lines 115-124), an Error
\* event ends the loop, as does the closed and empty channel.
StRelayStep ==
    /\ stRelay = "run"
    /\ IF stEvq # <<>>
       THEN /\ stEvq' = Tail(stEvq)
            /\ stSegs' = IF Head(stEvq) = "Segment"
                         THEN Append(stSegs, Row(FALSE, Len(stSegs) + 1))
                         ELSE stSegs
            /\ stRelay' = IF Head(stEvq) = "Error" THEN "done" ELSE "run"
       ELSE /\ stRx = "done"
            /\ stRelay' = "done"
            /\ UNCHANGED <<stSegs, stEvq>>
    /\ UNCHANGED <<stRx, stBatch, stNev>>
    /\ UNCHANGED nonStore

\* commands.rs lines 199-271: stop_session saves the audio and spawns the batch
\* task, which awaits transcribe_batch.
StStop ==
    /\ stBatch = "none"
    /\ stBatch' = "transcribing"
    /\ UNCHANGED <<stSegs, stEvq, stRx, stRelay, stNev>>
    /\ UNCHANGED nonStore

\* Lines 274-291: transcribe_batch returned n segments; under the db lock the
\* live segments are cleared and the n diarized segments are saved.
StBatchStore(n) ==
    /\ stBatch = "transcribing"
    /\ stBatch' = "stored"
    /\ LET kept == ClearLive(stSegs) IN
       stSegs' = kept \o [i \in 1..n |-> Row(TRUE, Len(stSegs) + i)]
    /\ UNCHANGED <<stEvq, stRx, stRelay, stNev>>
    /\ UNCHANGED nonStore

\* Lines 346-355: transcribe_batch failed; the table is left as it is.
StBatchFail ==
    /\ stBatch = "transcribing"
    /\ stBatch' = "failed"
    /\ UNCHANGED <<stSegs, stEvq, stRx, stRelay, stNev>>
    /\ UNCHANGED nonStore

NextStore ==
    \/ \E type \in StoreEvents : StEvent(type)
    \/ StRxClose
    \/ StRelayStep
    \/ StStop
    \/ \E n \in 0..MaxBatchSegs : StBatchStore(n)
    \/ StBatchFail

\* ---------------------------------------------------------- specification
Next ==
    \/ \E c \in Callers : StartBegin(c)
    \/ \E c \in Callers : StartStore(c)
    \/ \E c \in Callers, id \in SessionIds : StopTake(c, id)
    \/ \E c \in Callers : StopRead(c)
    \/ \E c \in Callers : StopSave(c)
    \/ \E s \in SessionIds, len \in ChunkLens : HwCallback(s, len)
    \/ \E s \in SessionIds : TaskConnectOk(s)
    \/ \E s \in SessionIds : TaskConnectErr(s)
    \/ \E s \in SessionIds : TaskCheckStop(s)
    \/ \E s \in SessionIds : TaskRecv(s)
    \/ \E s \in SessionIds : TaskAppend(s)
    \/ \E s \in SessionIds : TaskSend(s)
    \/ \E s \in SessionIds : TaskEnd(s)
    \/ \E s \in SessionIds : RtFail(s)

Init == InitSession /\ InitRT /\ InitCap /\ InitFn /\ InitStore

vars == <<svars, rtvars, capvars, fnvars, storevars>>

Spec == Init /\ [][Next]_vars

\* Spec with the forwarding task scheduled fairly by the runtime: each step of
\* its audio loop that is enabled is eventually taken. The outcome of
\* connect_realtime is the server's doing and has no fairness.
TaskStep(s) ==
    TaskCheckStop(s) \/ TaskRecv(s) \/ TaskAppend(s) \/ TaskSend(s) \/ TaskEnd(s)

SpecFair == Spec /\ \A s \in SessionIds : WF_vars(TaskStep(s))

SpecRT == Init /\ [][NextRT]_vars

SpecCap == Init /\ [][NextCap]_vars

SpecFn == Init /\ [][NextFn]_vars

SpecStore == Init /\ [][NextStore]_vars

\* SpecRT with the relay task scheduled fairly by the runtime.
SpecRTFair == SpecRT /\ WF_vars(RelayStep)

\* ================================================================ claims
\* Sessions whose capture engine holds an open hardware stream.
LiveCaptures == {s \in SessionIds : cap[s].stream}
\* Sessions whose background task has been spawned and has not returned.
LiveTasks == {s \in SessionIds : RxAlive(s)}
\* Sessions whose task got past connect_realtime with Ok.
HandshakeDone(s) == task[s] \in {"check", "recv", "append", "send", "end", "done"}
\* The start_session invocation that created s has not returned yet.
Starting(s) == \E c \in Callers : pc[c] = "start_store" /\ loc[c].sid = s

\* Caller c invokes command k ("start" or "stop") in this step.
Invokes(c, k) ==
    pc[c] = "idle" /\ ncalls' = ncalls + 1 /\ invoker' = c /\ loc'[c].cmd = k

\* C1: at most one recording is active at any time: two capture engines
\* created by start_session are never live together, under every
\* interleaving of start_session and stop_session calls.
C1_AtMostOneRecording == Cardinality(LiveCaptures) <= 1

\* C2: a start_session that finds a recording in the slot returns the
\* already-active error and changes nothing: the slot, the capturers, the
\* buffers, the stop signals, the session rows, the tasks and the channels are
\* as before.
C2_RejectedStartChangesNothing ==
    [][\A c \in Callers :
          (Invokes(c, "start") /\ IsSome(active))
          => /\ ret'[c] = Ret("ErrActive", NoSession)
             /\ pc'[c] = "idle"
             /\ UNCHANGED <<active, cap, buf, stopSig, dbRows, task, chan, mutex>>]_vars

\* C2 witness: a start_session was rejected while a recording is stored and
\* still capturing.
C2_Witness ==
    \E c \in Callers :
        /\ ret[c] = Ret("ErrActive", NoSession)
        /\ IsSome(active)
        /\ cap[active.capturer] = CapturerStarted
        /\ ~stopSig[active.stop_signal]

\* C3: stop_session with an id other than the active recording's returns the
\* mismatch error and leaves the recording untouched (same slot, stop signal
\* not raised, capturer not stopped, buffer not read out), and a stop_session
\* with the right id then takes the recording.
C3_MismatchedStopLeavesRecording ==
    [][\A c \in Callers :
          (Invokes(c, "stop") /\ IsSome(active))
          => IF loc'[c].sid # active.id
             THEN /\ ret'[c] = Ret("ErrMismatch", active.id)
                  /\ pc'[c] = "idle"
                  /\ loc'[c].samples = <<>>
                  /\ UNCHANGED <<active, cap, buf, stopSig, mutex, task>>
             ELSE /\ pc'[c] = "stop_read"
                  /\ active' = None
                  /\ stopSig'[active.stop_signal]]_vars

\* C3 witness: one stop_session was refused for a mismatched id and a later
\* stop_session with the right id stopped that same recording.
C3_Witness ==
    \E c, d \in Callers :
        /\ ret[c].kind = "ErrMismatch"
        /\ ret[d] = Ret("Stopped", ret[c].id)
        /\ loc[c].sid # ret[c].id

\* C4: once stop_session has taken the active recording the slot is empty
\* (and stays so while stop_session holds the mutex), and a start_session
\* that finds the slot empty is not rejected as already active.
C4_SlotEmptyAfterStop ==
    /\ [](\A c \in Callers : pc[c] = "stop_read" => ~IsSome(active) /\ mutex = c)
    /\ [][\A c \in Callers :
            (Invokes(c, "start") /\ ~IsSome(active))
            => ret'[c].kind # "ErrActive"]_vars

\* C4 witness: a recording was stopped and a later start_session returned the
\* id of a new recording, which now is the active one.
C4_Witness ==
    \E c \in Callers, s \in SessionIds :
        /\ ret[c] = Ret("Ok", s)
        /\ active = ActiveSession(s)
        /\ \E r \in SessionIds : r < s /\ stopSig[r] /\ ~cap[r].stream

\* C5: when the streaming client's handshake fails during session start, the
\* recording never starts: once start_session is over the slot does not hold
\* that session and its capture engine is stopped (no stream, flag false).
C5_FailedHandshakeTearsDown ==
    \A s \in SessionIds :
        (task[s] = "failed" /\ ~Starting(s))
        => /\ active.id # s
           /\ ~cap[s].stream
           /\ ~cap[s].capturing

\* C6: start_session returns a recording id only if the capture engine
\* started and the handshake has completed successfully.
C6_OkOnlyAfterHandshake ==
    \A c \in Callers :
        (ret[c].kind = "Ok") => HandshakeDone(ret[c].id)

\* C7: every non-empty chunk put on the channel before stop_session was
\* called is in the buffer stop_session reads out, exactly once and in
\* channel order.
C7_NoChunkLost ==
    \A c \in Callers :
        pc[c] = "stop_save"
        => \E n \in loc[c].seen..Len(emitted[loc[c].sid]) :
              loc[c].samples = Flatten(SubSeq(emitted[loc[c].sid], 1, n))

\* C8: a mid-session transcription failure never discards captured audio:
\* after it no sample leaves the buffer, a chunk taken from the channel is
\* still appended, the loop ends only on the stop signal or on the channel's
\* disconnection, and stop_session reads out the whole buffer.
C8_FailureKeepsAudio ==
    /\ [](\A s \in SessionIds :
            (RtFailed(s) /\ task[s] \in {"end", "done"})
            => (stopSig[s] \/ ~cap[s].stream))
    /\ [][\A s \in SessionIds :
            RtFailed(s) =>
              /\ IsPrefix(buf[s], buf'[s])
              /\ (task[s] = "append" /\ task'[s] # "append"
                    => buf'[s] = buf[s] \o cur[s] /\ task'[s] = "send")
              /\ (task[s] = "send" /\ task'[s] # "send" => task'[s] = "check")]_vars
    /\ [][\A c \in Callers :
            (pc[c] = "stop_read" /\ pc'[c] # "stop_read")
            => loc'[c].samples = buf[loc[c].sid]]_vars

\* C8 witness: the realtime session failed, a chunk was appended afterwards
\* and stop_session read out a buffer that holds it.
C8_Witness ==
    \E c \in Callers :
        /\ pc[c] = "stop_save"
        /\ RtFailed(loc[c].sid)
        /\ Len(loc[c].samples) > failedAt[loc[c].sid]
        /\ loc[c].samples = buf[loc[c].sid]

\* ------------------------------------------------------------ realtime.rs
\* Positions in the history of the given entries.
Pos(entry) == {i \in 1..Len(wire) : wire[i] = entry}
OutPos(type) == {i \in 1..Len(wire) : wire[i].dir = "out" /\ wire[i].msg.type = type}

\* Some session.created was read, a session.update was written after it and a
\* session.updated was read after that, all before position k of the history.
AcksBefore(k) ==
    \E i \in Pos(InAck("session.created")) :
      \E j \in Pos(Out(SessionUpdateMsg)) :
        \E u \in Pos(InAck("session.updated")) :
          i < j /\ j < u /\ u < k

\* C9: connect_realtime returns a handle only after it has read
\* session.created, then written exactly one session.update declaring
\* pcm_s16le at 16000 Hz, then read session.updated; no input_audio message is
\* ever written before both acknowledgments.
C9_HandleOnlyAfterBothAcks ==
    /\ (rtres = "Ok" \/ handle # "none" \/ sender # "none" \/ receiver # "none")
         => /\ AcksBefore(Len(wire) + 1)
            /\ Cardinality(OutPos("session.update")) = 1
            /\ \A j \in OutPos("session.update") :
                 /\ wire[j].msg.encoding = "pcm_s16le"
                 /\ wire[j].msg.sample_rate = 16000
    /\ \A k \in OutPos("input_audio.append") \cup OutPos("input_audio.end") :
         AcksBefore(k)

\* C9 witness: the handshake is over and an audio frame has been written.
C9_Witness ==
    /\ rtres = "Ok"
    /\ OutPos("input_audio.append") # {}
    /\ lastIn = "session.updated"

\* C10: in either handshake wait, a transport closure, a read error or a
\* server error ends connect_realtime with an error: no handle, no event
\* receiver, no sender or receiver task, nothing written in that step, and in
\* the first wait no session.update written at all.
C10_HandshakeFailureIsAnError ==
    /\ [](rtpc = "err" =>
            /\ rtres \in {"ErrConnect", "ErrClosed", "ErrRead", "ErrServer", "ErrSend"}
            /\ handle = "none" /\ sender = "none" /\ receiver = "none"
            /\ audioq = <<>> /\ events = <<>>
            /\ OutPos("input_audio.append") = {})
    /\ [][(rtpc \in {"wait_created", "wait_updated"} /\ nread' = nread + 1
             /\ lastIn' \in {"eof", "read_err", "error"})
          => /\ rtpc' = "err"
             /\ rtres' = (IF lastIn' = "eof" THEN "ErrClosed"
                          ELSE IF lastIn' = "read_err" THEN "ErrRead" ELSE "ErrServer")
             /\ wire' = wire
             /\ (rtpc = "wait_created" => OutPos("session.update") = {})]_vars

\* C10 witness: the server reported an error while connect_realtime waited for
\* session.updated, and connect_realtime returned that error.
C10_Witness ==
    /\ rtpc = "err"
    /\ rtres = "ErrServer"
    /\ lastIn = "error"
    /\ OutPos("session.update") # {}

\* The outbound messages of the given type, in the order they were written.
Written(type) ==
    SelectSeq(wire, LAMBDA e : e.dir = "out" /\ e.msg.type = type)

\* C11: audio leaves in FIFO order: the input_audio.append messages written
\* are, chunk for chunk and in order, the encodings of a prefix of the chunks
\* passed to send_audio: nothing reordered, duplicated or skipped.
C11_AudioLeavesInFifoOrder ==
    LET w == Written("input_audio.append") IN
    /\ Len(w) <= Len(sendLog)
    /\ \A i \in 1..Len(w) : w[i] = Out(AppendMsg(sendLog[i], srcRate))

\* C11 witness: two different non-empty chunks were passed to send_audio and
\* both have been written.
C11_Witness ==
    /\ Len(Written("input_audio.append")) = 2
    /\ sendLog[1] # <<>> /\ sendLog[2] # <<>>
    /\ AppendMsg(sendLog[1], srcRate) # AppendMsg(sendLog[2], srcRate)

\* C12: after end_audio no chunk of a later send_audio is transmitted: the
\* chunks written are among those passed before the first end_audio; when
\* input_audio.end is written all of these have been written, the sender task
\* has terminated, the message is written once and no outbound message
\* follows it.
C12_NothingSentAfterEnd ==
    /\ endMark >= 0 => Len(Written("input_audio.append")) <= endMark
    /\ Cardinality(OutPos("input_audio.end")) <= 1
    /\ \A k \in OutPos("input_audio.end") :
         /\ endMark >= 0
         /\ Len(Written("input_audio.append")) = endMark
         /\ sender = "done"
         /\ \A j \in (k + 1)..Len(wire) : wire[j].dir # "out"

\* C12 witness: one chunk was passed to send_audio before end_audio and one
\* after it, and input_audio.end has been written.
C12_Witness ==
    /\ endMark = 1
    /\ Len(sendLog) > endMark
    /\ sendLog[1] # <<>>
    /\ sendLog[endMark + 1] # <<>>
    /\ OutPos("input_audio.end") # {}
    /\ sender = "done"

\* The receiver task reads an item in this step.
ReceiverReads == receiver = "run" /\ nread' = nread + 1

\* C13: when the receiver task reads a server error message it sends exactly
\* one Error event for it and ends; once the receiver task has ended no event
\* is ever produced again, whatever the server sends; the relay stops at the
\* Error event.
C13_ErrorEndsEventStream ==
    /\ [][(ReceiverReads /\ lastIn' = "error")
            => /\ events' = Append(events, Event("Error", nread + 1))
               /\ receiver' = "done"]_vars
    /\ [][receiver = "done"
            => (events' = events /\ receiver' = "done" /\ nread' = nread)]_vars
    /\ [](\A i \in 1..nrelayed :
             events[i].type = "Error" => (i = nrelayed /\ relay = "done"))

\* C13 witness: the receiver task read a server error, the transport is still
\* open and more messages can arrive, and the relay has delivered the Error
\* event.
C13_Witness ==
    /\ receiver = "done"
    /\ lastIn = "error"
    /\ wsIn = "open"
    /\ nread < MaxInbound
    /\ Len(events) >= 1
    /\ events[Len(events)] = Event("Error", nread)
    /\ nrelayed = Len(events)
    /\ relay = "done"

\* The items that end the stream of events: done, a server error, a Close
\* frame, the end of the transport or a read error.
Closing == {"transcription.done", "error", "close", "eof", "read_err"}

\* C14: the event stream is ordered and finite: the events are those of the
\* event-bearing items in arrival order, a Done event is the last one, the
\* relay receives them in that order; when the receiver task reads done, an
\* error or the closing of the transport it ends (dropping the event sender),
\* and the relay's loop then terminates.
C14_EventStreamOrderedFinite ==
    /\ [](/\ Len(events) = Len(inEvents)
          /\ \A i \in 1..Len(events) :
               /\ events[i] = Event(ReceiverEvent(inEvents[i].type), inEvents[i].n)
               /\ \A j \in 1..Len(events) : i < j => events[i].n < events[j].n
               /\ events[i].type = "Done" => i = Len(events)
          /\ nrelayed <= Len(events)
          /\ Len(events) <= nread)
    /\ [][(ReceiverReads /\ lastIn' \in Closing) => receiver' = "done"]_vars
    /\ [][nrelayed' \in {nrelayed, nrelayed + 1}]_vars
    /\ ((receiver = "done" /\ relay = "run") ~> (relay = "done"))

\* C14 witness: a segment and done arrived in that order, the receiver task
\* has ended and the relay has received both events and ended.
C14_Witness ==
    /\ Len(events) = 2
    /\ events[1].type = "Segment"
    /\ events[2].type = "Done"
    /\ receiver = "done"
    /\ nrelayed = 2
    /\ relay = "done"

\* C29: a protocol or transport error after the handshake closes the
\* session: once the receiver task has surfaced a server error or a transport
\* read error, no further input_audio.append message is written and no further
\* event is produced.
C29_ErrorClosesSession ==
    [][(receiver = "done" /\ lastIn \in {"error", "read_err"})
         => /\ Len(Written("input_audio.append")') = Len(Written("input_audio.append"))
            /\ events' = events]_vars

\* C30: an inbound text message that does not parse is never fatal and never
\* produces an event: in a handshake wait it is skipped and the wait goes on,
\* in the receiver task it is discarded and the task keeps reading; every
\* event-bearing message the receiver task reads, before or after it, is
\* decoded and appended to the events in arrival order.
C30_UnparseableIsSkipped ==
    /\ [][(nread' = nread + 1 /\ lastIn' = "unparseable")
            => UNCHANGED <<rtpc, rtres, handle, sender, receiver, events, inEvents,
                           wire, wsIn>>]_vars
    /\ [][(ReceiverReads /\ ReceiverEvent(lastIn') # "")
            => events' = Append(events, Event(ReceiverEvent(lastIn'), nread + 1))]_vars

\* C30 witness: the receiver task has read an unparseable message after an
\* event, is still running and the transport is open.
C30_Witness ==
    /\ lastIn = "unparseable"
    /\ receiver = "run"
    /\ wsIn = "open"
    /\ events # <<>>
    /\ events[Len(events)].n = nread - 1

\* The wait for session.updated has skipped an unparseable message.
C30_WitnessHandshake ==
    /\ lastIn = "unparseable"
    /\ rtpc = "wait_updated"
    /\ wsIn = "open"

\* ------------------------------------------------------------- capture.rs
\* The rate of a buffer of samples that lasts dur time units.
HasRate(samples, dur, rate) == Len(samples) * UnitRate = rate * dur

\* C15: every frame written after the handshake is at 16 kHz, in both modes
\* and at every device rate: the rate the caller gives to connect_realtime is
\* the capturer's actual_sample_rate and is the rate of every chunk on the
\* channel, so the sender's resampling yields 16 kHz frames.
C15_FramesAt16kHz ==
    /\ acSrcRate # 0 => acSrcRate = acRate
    /\ \A i \in 1..Len(acChan) :
         HasRate(acChan[i].samples, acChan[i].dur, acSrcRate)
    /\ \A i \in 1..Len(acFrames) :
         HasRate(acFrames[i].samples, acFrames[i].dur, 16000)

\* C15 witness: a Visio capturer on Windows whose microphone runs at 48 kHz
\* and whose loopback runs at 8 kHz has had a chunk of each source forwarded.
C15_Witness ==
    /\ acMode = "Visio"
    /\ acDev.platform = "windows"
    /\ acDev.rate = 48000
    /\ acDev.sys_rate = 8000
    /\ Len(acFrames) = 2
    /\ acFrames[1].samples # <<>>
    /\ acFrames[2].samples # <<>>
    /\ acNcb = 2

\* An InPerson capturer at 48 kHz has had two chunks forwarded, which the
\* sender resampled.
C15_WitnessInPerson ==
    /\ acMode = "InPerson"
    /\ acDev.rate = 48000
    /\ Len(acFrames) = 2
    /\ acFrames[1].samples # <<>>

\* The fields of the capturer that stop writes.
capState == <<acCapturing, acStream, acSysStream>>

\* C16: AudioCapturer::stop is total and idempotent: it can be called in
\* every state of the capturer (never started, start failed, capturing,
\* stopped) and has no error result; after it the flag is false and no stream
\* is held; a stop that follows a stop leaves the capturer as the first left
\* it.
C16_StopIdempotentTotal ==
    /\ []((acPc = "idle" /\ acOps < MaxCapOps) => ENABLED CapStopFlag)
    /\ []((acPc = "stop_teardown" /\ acCb = [src \in Sources |-> NoCallback])
            => ENABLED CapStopTeardown)
    /\ [][(acPc = "stop_teardown" /\ acPc' # "stop_teardown")
            => /\ acLog' = Append(acLog, "stop")
               /\ capState' = <<FALSE, FALSE, FALSE>>]_vars
    /\ [][(LastOp = "stop" /\ (acPc' = "stop_teardown" \/ acPc = "stop_teardown"))
            => UNCHANGED capState]_vars

\* C16 witness: a capturer that was capturing has been stopped twice in a row.
C16_Witness ==
    /\ acLog = <<"start_ok", "stop", "stop">>
    /\ acPc = "idle"

\* A capturer whose start failed after the system-audio stream was stored has
\* been stopped.
C16_WitnessFailedStart ==
    /\ acLog = <<"start_err", "stop">>
    /\ acMode = "Visio"
    /\ acNcb > 0

\* C17: Stopped is terminal: once stop has returned on a capturer, no later
\* operation on it (start included) makes is_capturing true again or puts a
\* chunk on the channel.
C17_StoppedIsTerminal ==
    /\ [](acStopped => ~acCapturing)
    /\ [][acStopped => Len(acChan') <= Len(acChan)]_vars

\* A callback of src passes its flag test, or sends its chunk, in this step.
Passes(src) == acCb[src] = NoCallback /\ acCb'[src] # NoCallback
Puts == Len(acChan') > Len(acChan)

ReceivedOf(src) ==
    LET q == SelectSeq(acFrames, LAMBDA f : f.src = src)
    IN [i \in 1..Len(q) |-> q[i].k]
QueuedOf(src) ==
    LET q == SelectSeq(acChan, LAMBDA f : f.src = src)
    IN [i \in 1..Len(q) |-> q[i].k]

Increasing(q) == \A i, j \in 1..Len(q) : i < j => q[i] < q[j]

\* C25: in Visio mode both callbacks push into the same channel; for each
\* producer the consumer receives its chunks in the order of that producer's
\* callback invocations; a callback invoked while the flag is true puts its
\* chunk on the channel, and a chunk leaves the channel only to the consumer,
\* from the head: none is dropped.
C25_PerProducerOrder ==
    /\ [](\A src \in Sources : Increasing(ReceivedOf(src) \o QueuedOf(src)))
    /\ [][\A src \in Sources :
            (acNcb' = acNcb + 1 /\ acCb[src] = NoCallback /\ acCapturing
               /\ acCb' # acCb /\ acCb'[src] # NoCallback)
            => acCb'[src].k = acNcb + 1]_vars
    /\ [][(acNcb' = acNcb + 1 /\ acCapturing) => acCb' # acCb]_vars
    /\ [][\A src \in Sources :
            (acCb[src] # NoCallback /\ acCb'[src] = NoCallback)
            => /\ acChan' = Append(acChan, SentChunk(src))
               /\ acChan'[Len(acChan')].k = acCb[src].k]_vars
    /\ [][acChan' # acChan =>
            \/ \E src \in Sources : acChan' = Append(acChan, SentChunk(src))
            \/ /\ acChan # <<>>
               /\ acChan' = Tail(acChan)
               /\ Len(acFrames') = Len(acFrames) + 1
               /\ acFrames'[Len(acFrames')].src = Head(acChan).src
               /\ acFrames'[Len(acFrames')].k = Head(acChan).k]_vars

\* C25 witness: in Visio mode the consumer has received a microphone chunk,
\* then a system-audio chunk, while a second microphone chunk is queued.
C25_Witness ==
    /\ acMode = "Visio"
    /\ acCapturing
    /\ ReceivedOf("mic") = <<1>>
    /\ ReceivedOf("sys") = <<2>>
    /\ QueuedOf("mic") = <<3>>

\* C39: the sample rate stored in the active recording, which stop_session
\* uses for the saved audio and the duration, is the rate at which every
\* sample that reaches the accumulation buffer was produced by the capture
\* engine, in both modes and in the fallback case where the device does not
\* support 16 kHz: it is 16000 in Visio mode and the negotiated device rate in
\* InPerson mode, every chunk handed to the forwarding loop lasts
\* length / rate, and so does their concatenation.
C39_StoredRateIsBufferRate ==
    acSrcRate # 0 =>
        /\ acSrcRate = (IF acMode = "Visio" THEN 16000 ELSE acDev.rate)
        /\ \A i \in 1..Len(acChan) :
             Len(acChan[i].samples) * UnitRate = acSrcRate * acChan[i].dur
        /\ SumSeq([i \in 1..Len(acChan) |-> Len(acChan[i].samples)]) * UnitRate
             = acSrcRate * SumSeq([i \in 1..Len(acChan) |-> acChan[i].dur])

\* C39 witness: an InPerson capturer on a 48 kHz device (no 16 kHz range) has
\* put two chunks on the channel, and the stored rate is 48000.
C39_Witness ==
    /\ acMode = "InPerson"
    /\ acDev.rate = 48000
    /\ acSrcRate = 48000
    /\ Len(acChan) = 2
    /\ Len(acChan[1].samples) * UnitRate = 48000 * acChan[1].dur

\* A Visio capturer on Windows with a 48 kHz microphone and an 8 kHz loopback
\* has a chunk of each source on the channel, and the stored rate is 16000.
C39_WitnessVisio ==
    /\ acMode = "Visio"
    /\ acDev.platform = "windows"
    /\ acDev.rate = 48000 /\ acDev.sys_rate = 8000
    /\ acSrcRate = 16000
    /\ \E i, j \in 1..Len(acChan) : acChan[i].src = "mic" /\ acChan[j].src = "sys"

\* C28: every chunk the capture engine puts on its output channel is mono at
\* 16 kHz, in both capture modes and at every negotiated device rate.
C28_ChannelAt16kHz ==
    \A i \in 1..Len(acChan) : HasRate(acChan[i].samples, acChan[i].dur, 16000)

\* The forwarding task of s has returned.
TaskOver(s) == task[s] \in {"done", "failed"}

\* C19: after stop_session has taken recording s, its forwarding task
\* eventually terminates and has signalled end-of-audio exactly once, also
\* when the stop comes while the task is still connecting.
\* Stated on the task's final state: once the stop signal is raised and the
\* task has returned, end_audio has been called exactly once.
C19_TaskEndsAfterStop ==
    \A s \in SessionIds :
        /\ ended[s] <= 1
        /\ (stopSig[s] /\ TaskOver(s)) => ended[s] = 1

\* The termination half of C19, under SpecFair: the stop signal leads to the
\* task's return.
C19_TaskTerminates ==
    \A s \in SessionIds : stopSig[s] ~> TaskOver(s)

\* The forwarding task of s is suspended in connect_realtime(..).await
\* (commands.rs line 85).
Awaiting(s) == task[s] = "connecting"

C27_BufferAppendOnly ==
    /\ [][\A s \in SessionIds : IsPrefix(buf[s], buf'[s])]_vars
    /\ [][\A s \in SessionIds :
            buf'[s] # buf[s]
            => /\ task[s] = "append" /\ task'[s] = "send"
               /\ buf'[s] = buf[s] \o cur[s]]_vars
    /\ [][\A c \in Callers :
            (pc'[c] = "stop_read" /\ pc[c] # "stop_read")
            => (~stopSig[loc'[c].sid] /\ stopSig'[loc'[c].sid])]_vars
    /\ [][\A s \in SessionIds : stopSig[s] => stopSig'[s]]_vars
    /\ [][\A c \in Callers :
            loc'[c].samples # loc[c].samples
            => \/ loc'[c].samples = <<>> /\ pc[c] = "idle"
               \/ /\ pc[c] = "stop_read" /\ pc'[c] = "stop_save"
                  /\ loc'[c].samples = buf[loc[c].sid]]_vars

\* C27 witness: two chunks were appended to the buffer of a recording and
\* stop_session has read both.
C27_Witness ==
    \E c \in Callers :
        /\ pc[c] = "stop_save"
        /\ loc[c].samples = buf[loc[c].sid]
        /\ loc[c].samples = Chunk(1, 2) \o Chunk(2, 2)

\* C36: in the forwarding loop a chunk is appended to the accumulation buffer
\* before it is handed to the streaming client: in every reachable state the
\* chunks passed to send_audio are a prefix of the chunks appended to the
\* buffer, and the two differ by at most the one chunk being processed; empty
\* chunks are neither appended nor forwarded.
C36_AppendBeforeForward ==
    /\ [](\A s \in SessionIds :
            /\ buf[s] = Flatten(sent[s]) \o (IF task[s] = "send" THEN cur[s] ELSE <<>>)
            /\ \A i \in 1..Len(sent[s]) : sent[s][i] # <<>>)
    /\ [][\A s \in SessionIds :
            (task[s] = "recv" /\ chan[s] # <<>> /\ Head(chan[s]) = <<>> /\ task'[s] # "recv")
                => (buf'[s] = buf[s] /\ sent'[s] = sent[s] /\ task'[s] = "check")]_vars

\* C36 witness: one chunk has been forwarded and a second one is appended to
\* the buffer and not forwarded yet.
C36_Witness ==
    \E s \in SessionIds :
        /\ task[s] = "send"
        /\ Len(sent[s]) = 1
        /\ cur[s] # <<>>
        /\ buf[s] = sent[s][1] \o cur[s]

\* C37: the buffer stop_session reads out contains every sample that is ever
\* forwarded to the streaming client for that recording: after the read-out,
\* under every interleaving with the forwarding task, the chunks passed to
\* send_audio are a prefix of the samples read out.
C37_ReadOutCoversForwarded ==
    \A c \in Callers :
        (\/ pc[c] = "stop_save"
         \/ pc[c] = "idle" /\ ret[c].kind \in {"Stopped", "ErrSave", "ErrUpdate"})
            => IsPrefix(Flatten(sent[loc[c].sid]), loc[c].samples)

\* The caller's stop_session has taken the matching recording: it is reading
\* the buffer, saving, or has returned Ok or a save / storage error.
TookRecording(c) ==
    \/ pc[c] \in {"stop_read", "stop_save"}
    \/ pc[c] = "idle" /\ ret[c].kind \in {"Stopped", "ErrSave", "ErrUpdate"}

\* C38: once stop_session has taken the matching active recording, nothing in
\* the rest of stop_session fills the slot again: its later steps leave the
\* slot as it is, also when saving the audio file or updating storage fails
\* and stop_session returns an error; the slot never holds the taken recording
\* again (it is empty unless a later start_session stored a new one), the
\* capture engine is stopped and the stop signal is raised.
C38_SlotStaysEmptyOnFailure ==
    /\ [](\A c \in Callers :
            TookRecording(c) =>
                /\ active.id # loc[c].sid
                /\ pc[c] = "stop_read" => ~IsSome(active)
                /\ ~cap[loc[c].sid].stream /\ ~cap[loc[c].sid].capturing
                /\ stopSig[loc[c].sid])
    /\ [][\A c \in Callers :
            (pc[c] \in {"stop_read", "stop_save"} /\ pc'[c] # pc[c])
                => active' = active]_vars

\* C38 witness: stop_session returned a save error; the slot is empty, the
\* capture engine of the recording is stopped and its stop signal raised.
C38_Witness ==
    \E c \in Callers :
        /\ pc[c] = "idle"
        /\ ret[c].kind = "ErrSave"
        /\ ~IsSome(active)
        /\ stopSig[loc[c].sid]
        /\ ~cap[loc[c].sid].stream

\* C26: the batch-derived segments supersede the live ones: once the batch
\* task has cleared the live segments and stored the diarized ones, storage
\* holds no non-diarized segment of the session, whatever the relay does.
C26_BatchSupersedesLive ==
    stBatch = "stored" => \A i \in 1..Len(stSegs) : stSegs[i].diarized

\* ----------------------------------------------------- pure functions
\* q is s / c with truncation toward zero: the remainder is smaller than c
\* and has the sign of s.
IsTruncQuotient(q, s, c) ==
    LET r == s - q * c IN
    /\ (s >= 0 => (0 <= r /\ r < c))
    /\ (s < 0 => (-c < r /\ r <= 0))

\* C20: downmix_to_mono_i16(data, c) is data for c = 1; for c >= 2 it has
\* floor(len(data)/c) samples, the i-th being the sum of the i-th complete
\* frame divided by c with truncation toward zero, a trailing partial frame
\* being dropped; every output sample fits in 16 bits.
C20_DownmixMatchesReference ==
    fnName = "downmix_to_mono_i16" =>
        LET data == fnArgs.data
            c == fnArgs.channels
        IN /\ c = 1 => fnOut = data
           /\ c >= 2 =>
                /\ Len(fnOut) * c <= Len(data)
                /\ Len(data) < (Len(fnOut) + 1) * c
                /\ \A i \in 1..Len(fnOut) :
                     IsTruncQuotient(fnOut[i],
                                     SumSeq([j \in 1..c |-> data[(i - 1) * c + j]]), c)
           /\ \A i \in 1..Len(fnOut) : fnOut[i] \in -32768..32767

\* C20 witness: the stereo example.
C20_Witness ==
    /\ fnName = "downmix_to_mono_i16"
    /\ fnArgs = [data |-> <<1000, 500, -2000, -1000>>, channels |-> 2]
    /\ fnOut = <<750, -1500>>

\* A negative odd sum is truncated toward zero and the trailing partial frame
\* is dropped.
C20_WitnessTruncation ==
    /\ fnName = "downmix_to_mono_i16"
    /\ fnArgs = [data |-> <<-1, 0, 500>>, channels |-> 2]
    /\ fnOut = <<0>>

\* The call made was to one of the two resamplers.
IsResampleCall == fnName \in {"resample", "resample_simple"}

\* C21: both resamplers satisfy the identity laws: with from_rate = to_rate
\* the result is the input, for every sample sequence and every rate, and the
\* result for the empty sequence is empty for every pair of rates.
C21_ResamplersIdentityLaws ==
    IsResampleCall =>
        /\ fnArgs.from_rate = fnArgs.to_rate
             => (~fnPanicked /\ fnOut = fnArgs.samples)
        /\ fnArgs.samples = <<>> => (~fnPanicked /\ fnOut = <<>>)

\* C21 witness: resample_simple was called on a non-empty buffer with equal
\* rates.
C21_Witness ==
    /\ fnName = "resample_simple"
    /\ fnArgs.samples = <<32767, -1, 500>>
    /\ fnArgs.from_rate = 48000 /\ fnArgs.to_rate = 48000
    /\ fnOut = <<32767, -1, 500>>

\* resample was called on the empty buffer with two different rates, one of
\* them 0.
C21_WitnessEmpty ==
    /\ fnName = "resample"
    /\ fnArgs.samples = <<>>
    /\ fnArgs.from_rate = 0 /\ fnArgs.to_rate = 16000
    /\ fnOut = <<>>

\* C22: mix_samples(a, b) has length max(len a, len b); its i-th sample is
\* a[i] + b[i] computed without 16-bit wrap-around and clamped to
\* [-32768, 32767], a missing sample of the shorter buffer counting as 0; two
\* empty buffers give an empty result.
C22_MixPadsAndClamps ==
    fnName = "mix_samples" =>
        LET a == fnArgs.a
            b == fnArgs.b
            at(q, i) == IF i <= Len(q) THEN q[i] ELSE 0
        IN /\ ~fnPanicked
           /\ Len(fnOut) >= Len(a) /\ Len(fnOut) >= Len(b)
           /\ Len(fnOut) = Len(a) \/ Len(fnOut) = Len(b)
           /\ \A i \in 1..Len(fnOut) :
                LET sum == at(a, i) + at(b, i) IN
                /\ fnOut[i] \in -32768..32767
                /\ sum \in -32768..32767 => fnOut[i] = sum
                /\ sum > 32767 => fnOut[i] = 32767
                /\ sum < -32768 => fnOut[i] = -32768
           /\ (a = <<>> /\ b = <<>>) => fnOut = <<>>

\* C22 witness: buffers of unequal lengths whose first sum exceeds i16::MAX.
C22_Witness ==
    /\ fnName = "mix_samples"
    /\ fnArgs = [a |-> <<32767, 500>>, b |-> <<1000>>]
    /\ fnOut = <<32767, 500>>

\* The first sum falls below i16::MIN and the first buffer is the shorter.
C22_WitnessMin ==
    /\ fnName = "mix_samples"
    /\ fnArgs = [a |-> <<-32768>>, b |-> <<-1000, -1>>]
    /\ fnOut = <<-32768, -1>>

\* C34: if AudioCapturer::start returns an error the capturer is left with no
\* running hardware stream and is_capturing false: a failed start never leaves
\* a half-open device. (Stated for a capturer no start of which has succeeded,
\* so that a stream that runs was opened by a failed start.)
C34_FailedStartLeavesNothingOpen ==
    (/\ acPc = "idle"
     /\ LastOp = "start_err"
     /\ \A i \in 1..Len(acLog) : acLog[i] # "start_ok")
        => (~acStream /\ ~acSysStream /\ ~acCapturing)

\* The buffer of a conversion call and whether its arguments are degenerate:
\* an empty buffer, a channel count of 0, a rate of 0.
FnInput == IF fnName = "downmix_to_mono_i16" THEN fnArgs.data ELSE fnArgs.samples
FnDegenerate ==
    \/ FnInput = <<>>
    \/ fnName = "downmix_to_mono_i16" /\ fnArgs.channels = 0
    \/ IsResampleCall /\ (fnArgs.from_rate = 0 \/ fnArgs.to_rate = 0)

\* C23: the sample-conversion functions never fail: for degenerate arguments
\* (empty buffer, channel count 0, from_rate = 0 or to_rate = 0) they return
\* normally, with the input unchanged or an empty output.
C23_ConversionsNeverFail ==
    (fnName = "downmix_to_mono_i16" \/ IsResampleCall) =>
        /\ ~fnPanicked
        /\ FnDegenerate => (fnOut = FnInput \/ fnOut = <<>>)

\* The supported ranges of the device that contain 16 kHz, by position.
Containing == {i \in 1..Len(fnArgs.ranges) : Contains16k(fnArgs.ranges[i])}

\* C31: select_input_config returns a configuration at exactly 16 kHz if and
\* only if at least one supported range contains 16 kHz, and then the returned
\* candidate is one of those ranges with the maximum score among them (base
\* 100, +20 for i16 or +10 for f32, +10 for mono); otherwise it returns the
\* device's default configuration with its own rate. The call fails only when
\* the ranges cannot be listed, or when no range contains 16 kHz and the
\* default cannot be read.
C31_SelectsBest16kHzOrDefault ==
    (fnName = "select_input_config" /\ fnArgs.enum_ok) =>
        LET Pts(r) == 100 + (IF r.fmt = "I16" THEN 20 ELSE IF r.fmt = "F32" THEN 10 ELSE 0)
                          + (IF r.channels = 1 THEN 10 ELSE 0)
        IN /\ (fnOut.ok /\ fnOut.rate = 16000) <=> Containing # {}
           /\ Containing # {} =>
                \E i \in Containing :
                    /\ fnOut.fmt = fnArgs.ranges[i].fmt
                    /\ fnOut.channels = fnArgs.ranges[i].channels
                    /\ \A j \in Containing : Pts(fnArgs.ranges[j]) <= Pts(fnArgs.ranges[i])
           /\ Containing = {} => fnOut = fnArgs.default

\* C31 witness: among an f32 stereo range, an i16 mono range and a range
\* without 16 kHz, the i16 mono candidate was returned at 16 kHz.
C31_Witness ==
    /\ fnName = "select_input_config"
    /\ Len(fnArgs.ranges) = 3
    /\ fnArgs.ranges[1] = [min |-> 8000, max |-> 48000, fmt |-> "F32", channels |-> 2]
    /\ fnArgs.ranges[2] = [min |-> 16000, max |-> 16000, fmt |-> "I16", channels |-> 1]
    /\ fnArgs.ranges[3] = [min |-> 44100, max |-> 48000, fmt |-> "I16", channels |-> 1]
    /\ fnOut = [ok |-> TRUE, rate |-> 16000, fmt |-> "I16", channels |-> 1]

\* No range contains 16 kHz and the default configuration, at 48 kHz, was
\* returned.
C31_WitnessFallback ==
    /\ fnName = "select_input_config"
    /\ fnArgs.ranges # <<>>
    /\ Containing = {}
    /\ fnOut.ok /\ fnOut.rate = 48000
    /\ fnOut = fnArgs.default

\* C32: select_input_config follows its documented priority order for every
\* list of supported ranges in every order: if some range containing 16 kHz
\* has i16 encoding the selected configuration has i16 encoding, and if some
\* such range is i16 mono the selection is i16 mono.
C32_DocumentedPriorityOrder ==
    (fnName = "select_input_config" /\ fnArgs.enum_ok) =>
        /\ (\E i \in Containing : fnArgs.ranges[i].fmt = "I16") => fnOut.fmt = "I16"
        /\ (\E i \in Containing : /\ fnArgs.ranges[i].fmt = "I16"
                                   /\ fnArgs.ranges[i].channels = 1)
             => (fnOut.fmt = "I16" /\ fnOut.channels = 1)

C35_WitnessUpsample ==
    /\ fnName = "resample_simple"
    /\ Len(fnArgs.samples) = 2
    /\ fnArgs.from_rate = 8000 /\ fnArgs.to_rate = 48000
    /\ Len(fnOut) = 12

C33_WitnessNamed ==
    /\ fnName = "resolve_input_device"
    /\ fnArgs.device_name = [some |-> TRUE, v |-> "mic_b"]
    /\ fnArgs.default.name = "mic_a"
    /\ fnOut = [id |-> 2, name |-> "mic_b"]

====
